---- MODULE Spec2Model ----
(***************************************************************************)
(* Model of the calculation engine of n8n-nodes-ethena: the cooldown       *)
(* utilities (utils/cooldownUtils.ts), the points utilities                *)
(* (utils/pointsUtils.ts), the yield utilities (utils/yieldUtils.ts) and   *)
(* the delta-neutral utilities (second half of EthenaTrigger.node.ts).     *)
(*                                                                         *)
(* JavaScript numbers are modelled as exact rationals extended with NaN    *)
(* and +/-Infinity, so that a division by zero yields what IEEE-754        *)
(* yields.  Rounding error of the binary representation is not modelled.   *)
(***************************************************************************)
EXTENDS Integers, Sequences, FiniteSets, TLC

VARIABLES
    clock,          \* Date.now(), in milliseconds
    cd,             \* the on-chain cooldown window {start, end, amount}
    q,              \* the last call of a clock-reading function and its result
    qPrev,          \* the call before it
    available,      \* availableBalance of the account
    existingLocked, \* existingCooldownAmount of the account
    validation,     \* the last validateCooldownAmount call and its result
    calc,           \* the last call of a pure calculator and its result
    tierCall,       \* the last getMultiplierTier call and its result
    tierPrev,       \* the getMultiplierTier call before it
    proj,           \* the projectSatsEarnings call in progress: its arguments,
                    \* locals, position and result
    params,         \* the trigger node's parameters (getNodeParameter)
    webhookData,    \* the trigger's getWorkflowStaticData('node')
    head,           \* the chain's block number (provider.getBlockNumber())
    polls           \* the polls run so far: what each fetched, returned and stored

clockVars == <<clock, cd, q, qPrev>>
lockVars == <<available, existingLocked, validation>>
calcVars == <<calc>>
tierVars == <<tierCall, tierPrev>>
projVars == <<proj>>
trigVars == <<params, webhookData, head, polls>>
vars == <<clock, cd, q, qPrev, available, existingLocked, validation, calc,
          tierCall, tierPrev, proj, params, webhookData, head, polls>>

(***************************************************************************)
(* JavaScript numbers                                                      *)
(***************************************************************************)
RECURSIVE Gcd(_, _)
Gcd(a, b) == IF b = 0 THEN a ELSE Gcd(b, a % b)

Abs(x) == IF x < 0 THEN -x ELSE x

Sign(x) == IF x < 0 THEN -1 ELSE IF x > 0 THEN 1 ELSE 0

\* The finite number n/d (d # 0), in lowest terms with a positive denominator.
Fin(n, d) ==
    LET g == Gcd(Abs(n), Abs(d))
        s == IF d < 0 THEN -1 ELSE 1
    IN  [t |-> "fin", n |-> (s * n) \div g, d |-> (s * d) \div g]

Num(i) == Fin(i, 1)

NaN == [t |-> "nan", n |-> 0, d |-> 1]

\* +Infinity (s = 1) or -Infinity (s = -1).
Infinity(s) == [t |-> "inf", n |-> s, d |-> 1]

IsNaN(a) == a.t = "nan"

IsFiniteNum(a) == a.t \in {"fin", "compound"}

JsNeg(a) ==
    IF a.t = "nan" THEN NaN
    ELSE IF a.t = "inf" THEN Infinity(-a.n)
    ELSE Fin(-a.n, a.d)

JsAdd(a, b) ==
    IF a.t = "nan" \/ b.t = "nan" THEN NaN
    ELSE IF a.t = "inf" /\ b.t = "inf"
         THEN (IF a.n = b.n THEN a ELSE NaN)
    ELSE IF a.t = "inf" THEN a
    ELSE IF b.t = "inf" THEN b
    ELSE Fin(a.n * b.d + b.n * a.d, a.d * b.d)

JsSub(a, b) == JsAdd(a, JsNeg(b))

JsMul(a, b) ==
    IF a.t = "nan" \/ b.t = "nan" THEN NaN
    ELSE IF a.t = "inf" \/ b.t = "inf"
         THEN (IF a.n = 0 \/ b.n = 0 THEN NaN
               ELSE Infinity(Sign(a.n) * Sign(b.n)))
    ELSE Fin(a.n * b.n, a.d * b.d)

\* x / 0 is NaN for x = 0 and an infinity otherwise; no exception is raised.
JsDiv(a, b) ==
    IF a.t = "nan" \/ b.t = "nan" THEN NaN
    ELSE IF a.t = "inf"
         THEN (IF b.t = "inf" THEN NaN
               ELSE Infinity(a.n * (IF b.n < 0 THEN -1 ELSE 1)))
    ELSE IF b.t = "inf" THEN Num(0)
    ELSE IF b.n = 0
         THEN (IF a.n = 0 THEN NaN ELSE Infinity(Sign(a.n)))
    ELSE Fin(a.n * b.d, a.d * b.n)

\* a < b; every comparison with NaN is false.
JsLess(a, b) ==
    IF a.t = "nan" \/ b.t = "nan" THEN FALSE
    ELSE IF a.t = "inf" THEN a.n < 0 /\ ~(b.t = "inf" /\ b.n < 0)
    ELSE IF b.t = "inf" THEN b.n > 0
    ELSE a.n * b.d < b.n * a.d

JsLeq(a, b) ==
    IF a.t = "nan" \/ b.t = "nan" THEN FALSE ELSE ~JsLess(b, a)

\* Math.min of two numbers: NaN if either is NaN.
JsMin(a, b) ==
    IF a.t = "nan" \/ b.t = "nan" THEN NaN
    ELSE IF JsLess(b, a) THEN b ELSE a

JsAbs(a) ==
    IF a.t = "nan" THEN NaN
    ELSE IF a.t = "inf" THEN Infinity(1)
    ELSE Fin(Abs(a.n), a.d)

\* Math.round: the nearest integer, a tie rounding towards +Infinity.
JsRound(a) ==
    IF a.t = "fin" THEN Num((2 * a.n + a.d) \div (2 * a.d)) ELSE a

\* An optional argument: omitted, or supplied with a value.
Omitted == <<>>

Supplied(v) == <<v>>

(***************************************************************************)
(* utils/cooldownUtils.ts                                                  *)
(***************************************************************************)
MsPerSecond == 1000

\* One component of the string formatDuration builds, e.g. "5s" is [n: 5, u: "s"].
Part(n, u) == [n |-> n, u |-> u]

\* Faulty variant of formatDuration: the seconds are kept when days > 0.
formatDurationKeepingSeconds(seconds) ==
    IF seconds <= 0 THEN <<Part(0, "Ready")>>
    ELSE
        LET days == seconds \div 86400
            hours == (seconds % 86400) \div 3600
            minutes == (seconds % 3600) \div 60
            secs == seconds % 60
            parts == (IF days > 0 THEN <<Part(days, "d")>> ELSE <<>>)
                     \o (IF hours > 0 THEN <<Part(hours, "h")>> ELSE <<>>)
                     \o (IF minutes > 0 THEN <<Part(minutes, "m")>> ELSE <<>>)
                     \o (IF secs > 0 THEN <<Part(secs, "s")>> ELSE <<>>)
        IN  IF parts = <<>> THEN <<Part(0, "s")>> ELSE parts

formatDuration(seconds) ==
    IF seconds <= 0 THEN <<Part(0, "Ready")>>
    ELSE
        LET days == seconds \div 86400
            hours == (seconds % 86400) \div 3600
            minutes == (seconds % 3600) \div 60
            secs == seconds % 60
            parts == (IF days > 0 THEN <<Part(days, "d")>> ELSE <<>>)
                     \o (IF hours > 0 THEN <<Part(hours, "h")>> ELSE <<>>)
                     \o (IF minutes > 0 THEN <<Part(minutes, "m")>> ELSE <<>>)
                     \o (IF secs > 0 /\ days = 0 THEN <<Part(secs, "s")>> ELSE <<>>)
        IN  IF parts = <<>> THEN <<Part(0, "s")>> ELSE parts

\* `currentTimestamp || Math.floor(Date.now() / 1000)`: an omitted argument and
\* the falsy value 0 both fall back to the wall clock, read as dateNow (ms).
NowOrWallClock(currentTimestamp, dateNow) ==
    IF currentTimestamp = Omitted \/ currentTimestamp = Supplied(0)
    THEN dateNow \div MsPerSecond
    ELSE currentTimestamp[1]

calculateCooldownStatus(cooldownStart, cooldownEnd, cooldownAmount, currentTimestamp, dateNow) ==
    LET now == NowOrWallClock(currentTimestamp, dateNow)
        isActive == cooldownStart > 0 /\ cooldownAmount > 0
        canWithdraw == isActive /\ now >= cooldownEnd
        remainingSeconds == IF cooldownEnd - now > 0 THEN cooldownEnd - now ELSE 0
        totalDuration == cooldownEnd - cooldownStart
        elapsed == now - cooldownStart
        progress == IF totalDuration > 0
                    THEN JsMin(Num(100),
                               JsMul(JsDiv(Num(elapsed), Num(totalDuration)),
                                     Num(100)))
                    ELSE Num(0)
    IN  [isActive |-> isActive,
         startTime |-> cooldownStart,
         endTime |-> cooldownEnd,
         amount |-> cooldownAmount,
         canWithdraw |-> canWithdraw,
         remainingSeconds |-> remainingSeconds,
         remainingFormatted |-> formatDuration(remainingSeconds),
         progress |-> JsDiv(JsRound(JsMul(progress, Num(100))), Num(100))]

isCooldownComplete(cooldownEnd, currentTimestamp, dateNow) ==
    NowOrWallClock(currentTimestamp, dateNow) >= cooldownEnd

\* Faulty variant of validateCooldownAmount: a request for the whole ceiling is refused.
validateCooldownAmountBelowCeiling(requestedAmount, availableBalance, existingCooldownAmount) ==
    LET availableForCooldown == availableBalance - existingCooldownAmount
    IN  IF requestedAmount <= 0
        THEN [isValid |-> FALSE,
              error |-> "Amount must be greater than 0",
              maxAmount |-> availableForCooldown]
        ELSE IF requestedAmount >= availableForCooldown
        THEN [isValid |-> FALSE,
              error |-> "Insufficient balance. Maximum available: ",
              maxAmount |-> availableForCooldown]
        ELSE [isValid |-> TRUE,
              error |-> "undefined",
              maxAmount |-> availableForCooldown]

\* Faulty variant of validateCooldownAmount: the amount already cooling down
\* is not deducted from the ceiling checked.
validateCooldownAmountIgnoringExisting(requestedAmount, availableBalance, existingCooldownAmount) ==
    LET availableForCooldown == availableBalance - existingCooldownAmount
    IN  IF requestedAmount <= 0
        THEN [isValid |-> FALSE,
              error |-> "Amount must be greater than 0",
              maxAmount |-> availableForCooldown]
        ELSE IF requestedAmount > availableBalance
        THEN [isValid |-> FALSE,
              error |-> "Insufficient balance. Maximum available: ",
              maxAmount |-> availableForCooldown]
        ELSE [isValid |-> TRUE,
              error |-> "undefined",
              maxAmount |-> availableForCooldown]

validateCooldownAmount(requestedAmount, availableBalance, existingCooldownAmount) ==
    LET availableForCooldown == availableBalance - existingCooldownAmount
    IN  IF requestedAmount <= 0
        THEN [isValid |-> FALSE,
              error |-> "Amount must be greater than 0",
              maxAmount |-> availableForCooldown]
        ELSE IF requestedAmount > availableForCooldown
        THEN [isValid |-> FALSE,
              error |-> "Insufficient balance. Maximum available: ",
              maxAmount |-> availableForCooldown]
        ELSE [isValid |-> TRUE,
              error |-> "undefined",
              maxAmount |-> availableForCooldown]

(***************************************************************************)
(* utils/pointsUtils.ts: getSeasonTimeRemaining                            *)
(***************************************************************************)
\* endDate is endDate.getTime() and dateNow is new Date().getTime(), both in ms.
getSeasonTimeRemaining(endDate, dateNow) ==
    LET diff == endDate - dateNow
        days == diff \div (1000 * 60 * 60 * 24)
        hours == (diff % (1000 * 60 * 60 * 24)) \div (1000 * 60 * 60)
        minutes == (diff % (1000 * 60 * 60)) \div (1000 * 60)
        formatted == (IF days > 0 THEN <<Part(days, "d")>> ELSE <<>>)
                     \o (IF hours > 0 \/ days > 0 THEN <<Part(hours, "h")>> ELSE <<>>)
                     \o <<Part(minutes, "m")>>
    IN  IF diff <= 0
        THEN [days |-> 0, hours |-> 0, minutes |-> 0,
              formatted |-> <<Part(0, "Season Ended")>>]
        ELSE [days |-> days, hours |-> hours, minutes |-> minutes,
              formatted |-> formatted]

(***************************************************************************)
(* utils/yieldUtils.ts                                                     *)
(***************************************************************************)
\* `x === 0` on numbers.
IsZero(a) == a.t = "fin" /\ a.n = 0

RECURSIVE PowInt(_, _)
PowInt(base, k) == IF k = 0 THEN Num(1) ELSE JsMul(base, PowInt(base, k - 1))

\* Math.pow(1 + apr / n, n) - 1.  The n-th power of a rational does not fit the
\* model's integers for n = 365, so a finite non-zero apr yields the finite
\* value "compound" that stands for it; apr = 0 yields exactly 0.
aprToApy(apr, compoundingPeriods) ==
    IF apr.t = "nan" THEN NaN
    ELSE IF apr.t = "inf"
         THEN (IF apr.n > 0 \/ compoundingPeriods % 2 = 0
               THEN Infinity(1) ELSE Infinity(-1))
    ELSE IF apr.n = 0 THEN Num(0)
    ELSE [t |-> "compound", n |-> apr.n, d |-> apr.d, p |-> compoundingPeriods]

DaysPerYear == 365

\* Math.pow(1 + dailyRate, days) with dailyRate = Math.pow(1 + apy, 1 / 365) - 1,
\* which is (1 + apy)^(days / 365): computed for whole years, the only
\* compounding inputs drawn.
CompoundedGrowth(apy, days) == PowInt(JsAdd(Num(1), apy), days \div DaysPerYear)

calculateEarnings(principal, apy, days, compounding) ==
    LET finalAmount ==
            IF compounding
            THEN JsMul(principal, CompoundedGrowth(apy, days))
            ELSE JsMul(principal,
                       JsAdd(Num(1),
                             JsMul(JsDiv(apy, Num(DaysPerYear)), Num(days))))
        earnings == JsSub(finalAmount, principal)
        dailyEarnings == JsDiv(earnings, Num(days))
    IN  [finalAmount |-> finalAmount,
         earnings |-> earnings,
         dailyEarnings |-> dailyEarnings]

\* totalAssets and totalSupply are bigints.
calculateExchangeRate(totalAssets, totalSupply) ==
    IF totalSupply = 0 THEN Num(1)
    ELSE JsDiv(Num(totalAssets), Num(totalSupply))

calculateRateBasedApy(startRate, endRate, periodDays) ==
    IF IsZero(startRate) \/ IsZero(periodDays) THEN Num(0)
    ELSE
        LET periodReturn == JsDiv(JsSub(endRate, startRate), startRate)
            dailyReturn == JsDiv(periodReturn, periodDays)
        IN  aprToApy(JsMul(dailyReturn, Num(DaysPerYear)), DaysPerYear)

(***************************************************************************)
(* utils/pointsUtils.ts: calculateDailyEarnings                            *)
(***************************************************************************)
SatsActivity ==
    {"hold_usde", "stake_susde", "provide_liquidity", "referral",
     "early_adopter", "defi_integration", "governance", "special_event"}

BASE_EARNING_RATES ==
    [hold_usde |-> Num(10), stake_susde |-> Num(20),
     provide_liquidity |-> Num(30), referral |-> Num(5),
     early_adopter |-> Num(15), defi_integration |-> Num(25),
     governance |-> Num(10), special_event |-> Num(50)]

\* `a || b` on numbers: b when a is undefined, 0 or NaN.
OrElse(argument, fallback) ==
    IF argument = Omitted \/ IsZero(argument[1]) \/ IsNaN(argument[1])
    THEN fallback ELSE argument[1]

\* The loop of calculateDailyEarnings over the first k activities.
RECURSIVE EarningsOfFirst(_, _)
EarningsOfFirst(k, activities) ==
    IF k = 0 THEN Num(0)
    ELSE LET activity == activities[k]
             baseRate == OrElse(Supplied(BASE_EARNING_RATES[activity.type]), Num(0))
             multiplier == OrElse(activity.multiplier, Num(1))
             sats == JsMul(JsMul(JsDiv(activity.amount, Num(1000)), baseRate),
                           multiplier)
         IN  JsAdd(EarningsOfFirst(k - 1, activities), sats)

calculateDailyEarnings(activities) ==
    EarningsOfFirst(Len(activities), activities)

(***************************************************************************)
(* utils/pointsUtils.ts: getMultiplierTier                                 *)
(***************************************************************************)
MULTIPLIER_TIERS ==
    [base |-> Num(1), bronze |-> Fin(5, 4), silver |-> Fin(3, 2),
     gold |-> Num(2), platinum |-> Num(3), diamond |-> Num(5)]

thresholds ==
    <<[tier |-> "diamond", sats |-> Num(1000000), multiplier |-> MULTIPLIER_TIERS.diamond],
      [tier |-> "platinum", sats |-> Num(500000), multiplier |-> MULTIPLIER_TIERS.platinum],
      [tier |-> "gold", sats |-> Num(100000), multiplier |-> MULTIPLIER_TIERS.gold],
      [tier |-> "silver", sats |-> Num(25000), multiplier |-> MULTIPLIER_TIERS.silver],
      [tier |-> "bronze", sats |-> Num(5000), multiplier |-> MULTIPLIER_TIERS.bronze],
      [tier |-> "base", sats |-> Num(0), multiplier |-> MULTIPLIER_TIERS.base]>>

\* Faulty variant of MeetsThreshold: the threshold itself does not qualify.
MeetsThresholdStrictly(totalSats, threshold) == JsLess(threshold, totalSats)

\* `totalSats >= thresholds[i].sats`
MeetsThreshold(totalSats, threshold) == JsLeq(threshold, totalSats)

\* Faulty variant of NextTierOf: satsToNextTier measured from the tier's own threshold.
NextTierFromOwnThreshold(i, totalSats) ==
    IF i > 1
    THEN [nextTier |-> Supplied(thresholds[i - 1].tier),
          satsToNextTier |-> Supplied(JsSub(thresholds[i - 1].sats,
                                            thresholds[i].sats))]
    ELSE [nextTier |-> Omitted, satsToNextTier |-> Omitted]

\* `if (i > 0) { result.nextTier = ...; result.satsToNextTier = ... }`: the
\* table is indexed from 1 here, so its first row is i = 1.
NextTierOf(i, totalSats) ==
    IF i > 1
    THEN [nextTier |-> Supplied(thresholds[i - 1].tier),
          satsToNextTier |-> Supplied(JsSub(thresholds[i - 1].sats, totalSats))]
    ELSE [nextTier |-> Omitted, satsToNextTier |-> Omitted]

\* The loop of getMultiplierTier from row i on.
RECURSIVE ScanThresholds(_, _)
ScanThresholds(i, totalSats) ==
    IF i > Len(thresholds)
    THEN [tier |-> "base", multiplier |-> Num(1),
          nextTier |-> Omitted, satsToNextTier |-> Omitted]
    ELSE IF MeetsThreshold(totalSats, thresholds[i].sats)
    THEN [tier |-> thresholds[i].tier,
          multiplier |-> thresholds[i].multiplier,
          nextTier |-> NextTierOf(i, totalSats).nextTier,
          satsToNextTier |-> NextTierOf(i, totalSats).satsToNextTier]
    ELSE ScanThresholds(i + 1, totalSats)

\* Faulty variant of getMultiplierTier: the table is scanned from its last
\* row, so every balance is ranked base.
getMultiplierTierFromLastRow(totalSats) ==
    ScanThresholds(Len(thresholds), totalSats)

getMultiplierTier(totalSats) == ScanThresholds(1, totalSats)

(***************************************************************************)
(* utils/pointsUtils.ts: estimateEnaRewards, calculatePercentile           *)
(***************************************************************************)
\* Faulty variant of estimateEnaRewards: the zero-total guard is missing.
estimateEnaRewardsUnguarded(userSats, totalSeasonSats, rewardsPool) ==
    JsMul(JsDiv(userSats, totalSeasonSats), rewardsPool)

estimateEnaRewards(userSats, totalSeasonSats, rewardsPool) ==
    IF IsZero(totalSeasonSats) THEN Num(0)
    ELSE JsMul(JsDiv(userSats, totalSeasonSats), rewardsPool)

\* [...xs].sort((a, b) => a - b): insertion into an ascending sequence.
RECURSIVE InsertAsc(_, _)
InsertAsc(x, sorted) ==
    IF sorted = <<>> THEN <<x>>
    ELSE IF JsLess(x, Head(sorted)) THEN <<x>> \o sorted
    ELSE <<Head(sorted)>> \o InsertAsc(x, Tail(sorted))

RECURSIVE SortAsc(_)
SortAsc(xs) ==
    IF xs = <<>> THEN <<>>
    ELSE InsertAsc(xs[Len(xs)], SortAsc(SubSeq(xs, 1, Len(xs) - 1)))

\* Faulty variant of calculatePercentile: members equal to the value count.
calculatePercentileCountingTies(userSats, allUserSats) ==
    LET sorted == SortAsc(allUserSats)
        rank == Cardinality({i \in 1..Len(sorted) : JsLeq(sorted[i], userSats)})
    IN  JsMul(JsDiv(Num(rank), Num(Len(sorted))), Num(100))

calculatePercentile(userSats, allUserSats) ==
    LET sorted == SortAsc(allUserSats)
        rank == Cardinality({i \in 1..Len(sorted) : JsLess(sorted[i], userSats)})
    IN  JsMul(JsDiv(Num(rank), Num(Len(sorted))), Num(100))

(***************************************************************************)
(* Delta-neutral utilities (EthenaTrigger.node.ts, lines 439-784)          *)
(***************************************************************************)
\* Faulty variant of calculateDelta: the perp value taken as the size of the
\* short instead of a signed value.
calculateDeltaOfShortSize(spotValue, perpValue) ==
    IF IsZero(spotValue) THEN Num(0)
    ELSE JsDiv(JsSub(spotValue, perpValue), spotValue)

calculateDelta(spotValue, perpValue) ==
    IF IsZero(spotValue) THEN Num(0)
    ELSE JsDiv(JsAdd(spotValue, perpValue), spotValue)

calculateHedgeRatio(shortPosition, spotPosition) ==
    IF IsZero(spotPosition) THEN Num(0)
    ELSE JsDiv(shortPosition, spotPosition)

\* A parameter with a default value: the default when the argument is omitted.
OrDefault(argument, default) ==
    IF argument = Omitted THEN default ELSE argument[1]

\* The default of isDeltaNeutral's tolerance, 0.01.
DefaultTolerance == Fin(1, 100)

\* Faulty variant of isDeltaNeutral: the sign of delta is not removed.
isDeltaNeutralSigned(delta, tolerance) ==
    JsLeq(delta, OrDefault(tolerance, DefaultTolerance))

isDeltaNeutral(delta, tolerance) ==
    JsLeq(JsAbs(delta), OrDefault(tolerance, DefaultTolerance))

\* Faulty variant of calculateRebalanceAmount: a deviation of exactly 0.1% of
\* spot is still reported as 'none'.
calculateRebalanceAmountInclusive(spotValue, perpValue, targetDelta) ==
    LET targetPerpValue == JsMul(spotValue,
                                 JsSub(OrDefault(targetDelta, Num(0)), Num(1)))
        rebalanceAmount == JsSub(targetPerpValue, perpValue)
    IN  IF JsLeq(JsAbs(rebalanceAmount), JsMul(spotValue, Fin(1, 1000)))
        THEN [action |-> "none", amount |-> Num(0), newPerpValue |-> perpValue]
        ELSE [action |-> IF JsLess(rebalanceAmount, Num(0))
                         THEN "increase_short" ELSE "decrease_short",
              amount |-> JsAbs(rebalanceAmount),
              newPerpValue |-> targetPerpValue]

\* Faulty variant of calculateRebalanceAmount: newPerpValue is left at the
\* current perp value.
calculateRebalanceAmountKeepingPerp(spotValue, perpValue, targetDelta) ==
    LET targetPerpValue == JsMul(spotValue,
                                 JsSub(OrDefault(targetDelta, Num(0)), Num(1)))
        rebalanceAmount == JsSub(targetPerpValue, perpValue)
    IN  IF JsLess(JsAbs(rebalanceAmount), JsMul(spotValue, Fin(1, 1000)))
        THEN [action |-> "none", amount |-> Num(0), newPerpValue |-> perpValue]
        ELSE [action |-> IF JsLess(rebalanceAmount, Num(0))
                         THEN "increase_short" ELSE "decrease_short",
              amount |-> JsAbs(rebalanceAmount),
              newPerpValue |-> perpValue]

calculateRebalanceAmount(spotValue, perpValue, targetDelta) ==
    LET targetPerpValue == JsMul(spotValue,
                                 JsSub(OrDefault(targetDelta, Num(0)), Num(1)))
        rebalanceAmount == JsSub(targetPerpValue, perpValue)
    IN  IF JsLess(JsAbs(rebalanceAmount), JsMul(spotValue, Fin(1, 1000)))
        THEN [action |-> "none", amount |-> Num(0), newPerpValue |-> perpValue]
        ELSE [action |-> IF JsLess(rebalanceAmount, Num(0))
                         THEN "increase_short" ELSE "decrease_short",
              amount |-> JsAbs(rebalanceAmount),
              newPerpValue |-> targetPerpValue]

calculatePositionPnl(entryPrice, currentPrice, size, isShort) ==
    LET priceDiff == JsSub(currentPrice, entryPrice)
        pnl == IF isShort THEN JsMul(JsNeg(priceDiff), size)
               ELSE JsMul(priceDiff, size)
        pnlPercent == JsMul(JsDiv(pnl, JsMul(entryPrice, size)), Num(100))
    IN  [pnl |-> pnl, pnlPercent |-> pnlPercent]

estimateSlippage(size, liquidity, baseSlippage) ==
    IF IsZero(liquidity) THEN Num(1)
    ELSE LET impact == JsMul(JsDiv(size, liquidity), Fin(1, 10))
         IN  JsAdd(baseSlippage, impact)

\* The default of estimateSlippage's baseSlippage, 0.001.
DefaultBaseSlippage == Fin(1, 1000)

RECURSIVE SumLiquidity(_)
SumLiquidity(exchanges) ==
    IF exchanges = <<>> THEN Num(0)
    ELSE JsAdd(SumLiquidity(SubSeq(exchanges, 1, Len(exchanges) - 1)),
               exchanges[Len(exchanges)].liquidity)

\* The loop of calculateOptimalAllocation over the exchanges from index i on.
RECURSIVE AllocateFrom(_, _, _, _, _)
AllocateFrom(i, exchanges, totalSize, totalLiquidity, remaining) ==
    IF i > Len(exchanges) THEN <<>>
    ELSE
        LET exchange == exchanges[i]
            optimalAlloc == JsMul(JsDiv(exchange.liquidity, totalLiquidity),
                                  totalSize)
            allocation == JsMin(JsMin(optimalAlloc, exchange.maxPosition),
                                remaining)
        IN  <<[exchange |-> exchange.id,
               allocation |-> allocation,
               percent |-> JsMul(JsDiv(allocation, totalSize), Num(100))]>>
            \o AllocateFrom(i + 1, exchanges, totalSize, totalLiquidity,
                            JsSub(remaining, allocation))

calculateOptimalAllocation(totalSize, exchanges) ==
    AllocateFrom(1, exchanges, totalSize, SumLiquidity(exchanges), totalSize)

\* The default of calculateLiquidationPrice's maintenanceMargin, 0.005.
DefaultMaintenanceMargin == Fin(5, 1000)

calculateLiquidationPrice(entryPrice, leverage, isShort, maintenanceMargin) ==
    LET marginRatio == JsDiv(Num(1), leverage)
        margin == OrDefault(maintenanceMargin, DefaultMaintenanceMargin)
    IN  IF isShort
        THEN JsMul(entryPrice, JsSub(JsAdd(Num(1), marginRatio), margin))
        ELSE JsMul(entryPrice, JsAdd(JsSub(Num(1), marginRatio), margin))

RECURSIVE SumAbsValue(_)
SumAbsValue(positions) ==
    IF positions = <<>> THEN Num(0)
    ELSE JsAdd(SumAbsValue(SubSeq(positions, 1, Len(positions) - 1)),
               JsAbs(positions[Len(positions)].value))

\* Faulty variant of AddShare: a later position of an exchange overwrites its
\* share instead of adding to it.
AddShareOverwriting(distribution, exchange, percent) ==
    IF \E i \in 1..Len(distribution) : distribution[i].exchange = exchange
    THEN [i \in 1..Len(distribution) |->
            IF distribution[i].exchange = exchange
            THEN [exchange |-> exchange, percent |-> percent]
            ELSE distribution[i]]
    ELSE Append(distribution, [exchange |-> exchange, percent |-> percent])

\* distribution[exchange] = (distribution[exchange] || 0) + percent, on the
\* object kept as its entries in insertion order.
AddShare(distribution, exchange, percent) ==
    IF \E i \in 1..Len(distribution) : distribution[i].exchange = exchange
    THEN [i \in 1..Len(distribution) |->
            IF distribution[i].exchange = exchange
            THEN [exchange |-> exchange,
                  percent |-> JsAdd(IF IsZero(distribution[i].percent)
                                       \/ IsNaN(distribution[i].percent)
                                    THEN Num(0) ELSE distribution[i].percent,
                                    percent)]
            ELSE distribution[i]]
    ELSE Append(distribution, [exchange |-> exchange, percent |-> percent])

RECURSIVE Distribute(_, _)
Distribute(positions, total) ==
    IF positions = <<>> THEN <<>>
    ELSE
        LET pos == positions[Len(positions)]
            percent == IF JsLess(Num(0), total)
                       THEN JsMul(JsDiv(JsAbs(pos.value), total), Num(100))
                       ELSE Num(0)
        IN  AddShare(Distribute(SubSeq(positions, 1, Len(positions) - 1), total),
                     pos.exchange, percent)

RECURSIVE SumSquaredShares(_)
SumSquaredShares(distribution) ==
    IF distribution = <<>> THEN Num(0)
    ELSE LET share == JsDiv(distribution[Len(distribution)].percent, Num(100))
         IN  JsAdd(SumSquaredShares(SubSeq(distribution, 1, Len(distribution) - 1)),
                   JsMul(share, share))

\* Object.entries(distribution).sort((a, b) => b[1] - a[1])[0]: the sort is
\* stable, so the first entry, in insertion order, that no entry exceeds.
LargestEntry(distribution) ==
    LET i == CHOOSE k \in 1..Len(distribution) :
                 /\ \A j \in 1..Len(distribution) :
                        ~JsLess(distribution[k].percent, distribution[j].percent)
                 /\ \A j \in 1..(k - 1) :
                        JsLess(distribution[k].percent, distribution[j].percent)
                        \/ JsLess(distribution[j].percent, distribution[k].percent)
    IN  distribution[i]

calculateCounterpartyRisk(positions) ==
    LET total == SumAbsValue(positions)
        distribution == Distribute(positions, total)
    IN  [distribution |-> distribution,
         concentration |-> SumSquaredShares(distribution),
         largestExposure |->
             IF distribution = <<>>
             THEN [exchange |-> "", percent |-> Num(0)]
             ELSE LargestEntry(distribution)]

\* x.toFixed(2): x rounded to hundredths, a tie rounding away from zero; the
\* digits are kept as the number they denote.
ToFixed2(x) ==
    IF x.t = "fin"
    THEN Fin(Sign(x.n) * ((2 * Abs(x.n) * 100 + x.d) \div (2 * x.d)), 100)
    ELSE x

\* The truthiness of an optional number: undefined, 0 and NaN are falsy.
IsTruthy(argument) ==
    /\ argument # Omitted
    /\ ~IsZero(argument[1])
    /\ ~IsNaN(argument[1])

DefaultRebalanceThreshold == Fin(2, 100)

DefaultMaxRebalanceInterval == 86400

\* Faulty variant of needsRebalance: a delta equal to the threshold already
\* triggers.
needsRebalanceAtThreshold(currentDelta, rebalanceThreshold, timeSinceLastRebalance, maxRebalanceInterval) ==
    IF JsLeq(OrDefault(rebalanceThreshold, DefaultRebalanceThreshold),
             JsAbs(currentDelta))
    THEN [shouldRebalance |-> TRUE,
          reason |-> <<"Delta exposure ", ToFixed2(JsMul(currentDelta, Num(100))),
                       "% exceeds threshold">>]
    ELSE IF /\ IsTruthy(timeSinceLastRebalance)
            /\ JsLess(OrDefault(maxRebalanceInterval,
                                Num(DefaultMaxRebalanceInterval)),
                      timeSinceLastRebalance[1])
    THEN [shouldRebalance |-> TRUE,
          reason |-> <<"Maximum time since last rebalance exceeded">>]
    ELSE [shouldRebalance |-> FALSE,
          reason |-> <<"Position within acceptable parameters">>]

needsRebalance(currentDelta, rebalanceThreshold, timeSinceLastRebalance, maxRebalanceInterval) ==
    IF JsLess(OrDefault(rebalanceThreshold, DefaultRebalanceThreshold),
              JsAbs(currentDelta))
    THEN [shouldRebalance |-> TRUE,
          reason |-> <<"Delta exposure ", ToFixed2(JsMul(currentDelta, Num(100))),
                       "% exceeds threshold">>]
    ELSE IF /\ IsTruthy(timeSinceLastRebalance)
            /\ JsLess(OrDefault(maxRebalanceInterval,
                                Num(DefaultMaxRebalanceInterval)),
                      timeSinceLastRebalance[1])
    THEN [shouldRebalance |-> TRUE,
          reason |-> <<"Maximum time since last rebalance exceeded">>]
    ELSE [shouldRebalance |-> FALSE,
          reason |-> <<"Position within acceptable parameters">>]

(***************************************************************************)
(* The components are independent: each specification below runs one of    *)
(* them and leaves the variables of the others idle.                       *)
(***************************************************************************)
NoCall == [fn |-> "none", arg |-> <<>>, res |-> <<>>]

ClockIdle ==
    /\ clock = MsPerSecond
    /\ cd = [start |-> 0, end |-> 0, amount |-> 0]
    /\ q = NoCall
    /\ qPrev = NoCall

LockIdle ==
    /\ available = 0
    /\ existingLocked = 0
    /\ validation = NoCall

CalcIdle == calc = NoCall

TierIdle ==
    /\ tierCall = NoCall
    /\ tierPrev = NoCall

ProjIdle == proj = [pc |-> "idle"]

TrigIdle ==
    /\ params = [event |-> "none"]
    /\ webhookData = [lastBlock |-> <<>>, wasAboveThreshold |-> <<>>,
                      lastSats |-> <<>>]
    /\ head = 0
    /\ polls = <<>>

(***************************************************************************)
(* Bounds and input sets                                                   *)
(***************************************************************************)
\* Timestamps (cooldown start, end and supplied now) range over 0..MaxTime.
MaxTime == 3

\* The wall clock starts at second 1 and does not pass second MaxClockSeconds.
MaxClockSeconds == 4

\* Locked amounts (bigint): none, or some.
Amounts == {0, 1}

Timestamps == {Omitted} \cup {Supplied(n) : n \in 0..MaxTime}

\* Season end dates (ms): passed, within the minute, and more than a day ahead.
SeasonEnds == {2000, 62000, 90122000}

(***************************************************************************)
(* The functions that read the wall clock, called in any order while time  *)
(* passes: calculateCooldownStatus and isCooldownComplete on one on-chain  *)
(* cooldown window, and getSeasonTimeRemaining.                            *)
(***************************************************************************)
ClockInit ==
    /\ clock = MsPerSecond
    /\ cd \in [start : 0..MaxTime, end : 0..MaxTime, amount : Amounts]
    /\ q = NoCall
    /\ qPrev = NoCall

Tick ==
    /\ clock + MsPerSecond <= MaxClockSeconds * MsPerSecond
    /\ clock' = clock + MsPerSecond
    /\ UNCHANGED <<cd, q, qPrev, lockVars, calcVars, tierVars, projVars, trigVars>>

CallCooldownStatus ==
    /\ \E ts \in Timestamps :
          q' = [fn |-> "calculateCooldownStatus",
                arg |-> ts,
                res |-> calculateCooldownStatus(cd.start, cd.end, cd.amount,
                                                ts, clock)]
    /\ qPrev' = q
    /\ UNCHANGED <<clock, cd, lockVars, calcVars, tierVars, projVars, trigVars>>

CallIsCooldownComplete ==
    /\ \E ts \in Timestamps :
          q' = [fn |-> "isCooldownComplete",
                arg |-> ts,
                res |-> isCooldownComplete(cd.end, ts, clock)]
    /\ qPrev' = q
    /\ UNCHANGED <<clock, cd, lockVars, calcVars, tierVars, projVars, trigVars>>

CallGetSeasonTimeRemaining ==
    /\ \E endDate \in SeasonEnds :
          q' = [fn |-> "getSeasonTimeRemaining",
                arg |-> endDate,
                res |-> getSeasonTimeRemaining(endDate, clock)]
    /\ qPrev' = q
    /\ UNCHANGED <<clock, cd, lockVars, calcVars, tierVars, projVars, trigVars>>

(***************************************************************************)
(* validateCooldownAmount on an account's balance and locked amount        *)
(***************************************************************************)
\* Balances and locked amounts (bigint) range over 0..MaxBalance.
MaxBalance == 4

LockInit ==
    /\ available \in 0..MaxBalance
    /\ existingLocked \in 0..MaxBalance
    /\ validation = NoCall

CallValidateCooldownAmount ==
    /\ \E requested \in -1..(MaxBalance + 1) :
          validation' = [fn |-> "validateCooldownAmount",
                         arg |-> <<requested, available, existingLocked>>,
                         res |-> validateCooldownAmount(requested, available,
                                                        existingLocked)]
    /\ UNCHANGED <<available, existingLocked, clockVars, calcVars, tierVars, projVars, trigVars>>

InitLock == ClockIdle /\ LockInit /\ CalcIdle /\ TierIdle /\ ProjIdle /\ TrigIdle

NextLock == CallValidateCooldownAmount

SpecLock == InitLock /\ [][NextLock]_vars

(***************************************************************************)
(* A sequence of cooldown requests on one account: each is validated, an   *)
(* accepted amount starts cooling down (it is added to existingLocked), a  *)
(* rejected one changes nothing.                                           *)
(***************************************************************************)
RequestsInit ==
    /\ available \in 0..MaxBalance
    /\ existingLocked \in 0..available
    /\ validation = NoCall

RequestCooldown ==
    /\ \E requested \in -1..(MaxBalance + 1) :
          LET result == validateCooldownAmount(requested, available,
                                               existingLocked)
          IN  /\ validation' = [fn |-> "validateCooldownAmount",
                                arg |-> <<requested, available, existingLocked>>,
                                res |-> result]
              /\ existingLocked' = IF result.isValid
                                   THEN existingLocked + requested
                                   ELSE existingLocked
    /\ UNCHANGED <<available, clockVars, calcVars, tierVars, projVars, trigVars>>

InitRequests == ClockIdle /\ RequestsInit /\ CalcIdle /\ TierIdle /\ ProjIdle /\ TrigIdle

NextRequests == RequestCooldown

SpecRequests == InitRequests /\ [][NextRequests]_vars

(***************************************************************************)
(* The pure calculators, each called on inputs drawn from small sets.  They *)
(* keep no state, so one call per behaviour covers them all.               *)
(***************************************************************************)
\* Integer inputs range over -1..MaxNum.
MaxNum == 2

\* Compounding is projected over 0..MaxYears whole years.
MaxYears == 2

\* Lists (population, exchanges, positions) have at most MaxList entries.
MaxList == 2

Numbers == {Num(i) : i \in -1..MaxNum} \cup {Fin(1, 2)}

NonNegNumbers == {x \in Numbers : x.n >= 0}

\* Any argument at all, for the arguments a fallback must not depend on.
AnyNumbers == Numbers \cup {NaN, Infinity(1)}

Apys == {Num(0), Fin(1, 10), Num(1)}

DayCounts == {0, 1} \cup {DaysPerYear * k : k \in 0..MaxYears}

SeqsUpTo(S, n) == UNION {[1..k -> S] : k \in 0..n}

Exchanges ==
    {[id |-> i, liquidity |-> l, fundingRate |-> Num(0), maxPosition |-> m] :
        i \in {"A", "B"}, l \in {Num(0), Num(1), Num(3)}, m \in {Num(0), Num(2)}}

Positions == {[exchange |-> e, value |-> v] :
                 e \in {"A", "B"}, v \in {Num(-1), Num(0), Num(3)}}

\* A call that returned res; no calculator throws.
Returned(fn, arg, res) ==
    [fn |-> fn, arg |-> arg, outcome |-> "returned", res |-> res]

CalcFrame == UNCHANGED <<clockVars, lockVars, tierVars, projVars, trigVars>>

CallCalculateEarnings ==
    /\ CalcIdle
    /\ \E principal \in NonNegNumbers, apy \in Apys, days \in DayCounts,
          compounding \in BOOLEAN :
          /\ compounding => days % DaysPerYear = 0
          /\ calc' = Returned("calculateEarnings",
                              <<principal, apy, days, compounding>>,
                              calculateEarnings(principal, apy, days, compounding))
    /\ CalcFrame

CallCalculateExchangeRate ==
    /\ CalcIdle
    /\ \E totalAssets \in 0..MaxNum, totalSupply \in 0..MaxNum :
          calc' = Returned("calculateExchangeRate", <<totalAssets, totalSupply>>,
                           calculateExchangeRate(totalAssets, totalSupply))
    /\ CalcFrame

CallCalculateRateBasedApy ==
    /\ CalcIdle
    /\ \E startRate \in NonNegNumbers, endRate \in AnyNumbers,
          periodDays \in AnyNumbers :
          calc' = Returned("calculateRateBasedApy",
                           <<startRate, endRate, periodDays>>,
                           calculateRateBasedApy(startRate, endRate, periodDays))
    /\ CalcFrame

CallCalculateDelta ==
    /\ CalcIdle
    /\ \E spotValue \in NonNegNumbers, perpValue \in AnyNumbers :
          calc' = Returned("calculateDelta", <<spotValue, perpValue>>,
                           calculateDelta(spotValue, perpValue))
    /\ CalcFrame

CallCalculateHedgeRatio ==
    /\ CalcIdle
    /\ \E shortPosition \in AnyNumbers, spotPosition \in NonNegNumbers :
          calc' = Returned("calculateHedgeRatio", <<shortPosition, spotPosition>>,
                           calculateHedgeRatio(shortPosition, spotPosition))
    /\ CalcFrame

CallEstimateSlippage ==
    /\ CalcIdle
    /\ \E size \in AnyNumbers, liquidity \in NonNegNumbers :
          calc' = Returned("estimateSlippage", <<size, liquidity>>,
                           estimateSlippage(size, liquidity, DefaultBaseSlippage))
    /\ CalcFrame

CallEstimateEnaRewards ==
    /\ CalcIdle
    /\ \E userSats \in AnyNumbers, totalSeasonSats \in NonNegNumbers,
          rewardsPool \in AnyNumbers :
          calc' = Returned("estimateEnaRewards",
                           <<userSats, totalSeasonSats, rewardsPool>>,
                           estimateEnaRewards(userSats, totalSeasonSats, rewardsPool))
    /\ CalcFrame

CallCalculatePercentile ==
    /\ CalcIdle
    /\ \E userSats \in NonNegNumbers,
          allUserSats \in SeqsUpTo(NonNegNumbers, MaxList) :
          calc' = Returned("calculatePercentile", <<userSats, allUserSats>>,
                           calculatePercentile(userSats, allUserSats))
    /\ CalcFrame

CallCalculatePositionPnl ==
    /\ CalcIdle
    /\ \E entryPrice \in NonNegNumbers, currentPrice \in NonNegNumbers,
          size \in NonNegNumbers, isShort \in BOOLEAN :
          calc' = Returned("calculatePositionPnl",
                           <<entryPrice, currentPrice, size, isShort>>,
                           calculatePositionPnl(entryPrice, currentPrice, size,
                                                isShort))
    /\ CalcFrame

CallCalculateOptimalAllocation ==
    /\ CalcIdle
    /\ \E totalSize \in NonNegNumbers, exchanges \in SeqsUpTo(Exchanges, MaxList) :
          calc' = Returned("calculateOptimalAllocation", <<totalSize, exchanges>>,
                           calculateOptimalAllocation(totalSize, exchanges))
    /\ CalcFrame

CallCalculateCounterpartyRisk ==
    /\ CalcIdle
    /\ \E positions \in SeqsUpTo(Positions, MaxList) :
          calc' = Returned("calculateCounterpartyRisk", <<positions>>,
                           calculateCounterpartyRisk(positions))
    /\ CalcFrame

\* Spot values, and perp values around the hedge of a spot value of 1000.
SpotValues == {Num(0), Num(1000), Num(-1000)}

PerpValues ==
    {Num(0), Num(-500), Num(-979), Num(-980), Num(-999), Fin(-1999, 2),
     Num(-1000), Fin(-2001, 2), Num(-1001), Num(-1020), Num(-1021),
     Num(-1500), Num(1000)}

TargetDeltas == {Omitted, Supplied(Num(0)), Supplied(Fin(1, 2))}

CallCalculateRebalanceAmount ==
    /\ CalcIdle
    /\ \E spotValue \in SpotValues, perpValue \in PerpValues,
          targetDelta \in TargetDeltas :
          calc' = Returned("calculateRebalanceAmount",
                           <<spotValue, perpValue, targetDelta>>,
                           calculateRebalanceAmount(spotValue, perpValue,
                                                    targetDelta))
    /\ CalcFrame

\* The recommendation of the last calculateRebalanceAmount call is applied:
\* the perp value becomes newPerpValue, and delta and the rebalance are
\* computed again; calc keeps the first call as `first`.
ApplyRebalance ==
    /\ calc.fn = "calculateRebalanceAmount"
    /\ "first" \notin DOMAIN calc
    /\ LET spotValue == calc.arg[1]
           targetDelta == calc.arg[3]
           newPerpValue == calc.res.newPerpValue
       IN  calc' = [fn |-> "calculateRebalanceAmount",
                    arg |-> <<spotValue, newPerpValue, targetDelta>>,
                    outcome |-> "returned",
                    res |-> calculateRebalanceAmount(spotValue, newPerpValue,
                                                     targetDelta),
                    delta |-> calculateDelta(spotValue, newPerpValue),
                    first |-> [arg |-> calc.arg, res |-> calc.res]]
    /\ CalcFrame

EntryPrices == {Num(1), Num(100)}

\* Leverages from 1 up to beyond 1 / DefaultMaintenanceMargin = 200.
Leverages == {Num(1), Fin(3, 2), Num(10), Num(100), Num(200), Num(400)}

MaintenanceMargins == {Omitted, Supplied(Num(0)), Supplied(Fin(1, 100))}

CallCalculateLiquidationPrice ==
    /\ CalcIdle
    /\ \E entryPrice \in EntryPrices, leverage \in Leverages,
          isShort \in BOOLEAN, maintenanceMargin \in MaintenanceMargins :
          calc' = Returned("calculateLiquidationPrice",
                           <<entryPrice, leverage, isShort, maintenanceMargin>>,
                           calculateLiquidationPrice(entryPrice, leverage,
                                                     isShort, maintenanceMargin))
    /\ CalcFrame

\* A second call on the same position at another leverage; calc keeps the
\* first call as `first`.
CallCalculateLiquidationPriceAgain ==
    /\ calc.fn = "calculateLiquidationPrice"
    /\ "first" \notin DOMAIN calc
    /\ \E leverage \in Leverages :
          LET entryPrice == calc.arg[1]
              isShort == calc.arg[3]
              maintenanceMargin == calc.arg[4]
          IN  calc' = [fn |-> "calculateLiquidationPrice",
                       arg |-> <<entryPrice, leverage, isShort, maintenanceMargin>>,
                       outcome |-> "returned",
                       res |-> calculateLiquidationPrice(entryPrice, leverage,
                                                         isShort, maintenanceMargin),
                       first |-> [arg |-> calc.arg, res |-> calc.res]]
    /\ CalcFrame

\* Deltas below, at and above the default threshold of 2%, on both sides.
CurrentDeltas ==
    {Num(0), Fin(1, 100), Fin(2, 100), Fin(-2, 100), Fin(3, 100), Fin(-3, 100),
     Fin(12345, 1000000)}

RebalanceThresholds == {Omitted, Supplied(Num(0)), Supplied(Fin(1, 100))}

\* Seconds since the last rebalance: omitted, or around the default maximum
\* interval of a day.
TimesSinceLastRebalance ==
    {Omitted} \cup {Supplied(Num(t)) :
                       t \in {0, 1, DefaultMaxRebalanceInterval,
                              DefaultMaxRebalanceInterval + 1}}

MaxRebalanceIntervals == {Omitted, Supplied(Num(0)), Supplied(Num(1))}

CallNeedsRebalance ==
    /\ CalcIdle
    /\ \E currentDelta \in CurrentDeltas,
          rebalanceThreshold \in RebalanceThresholds,
          timeSinceLastRebalance \in TimesSinceLastRebalance,
          maxRebalanceInterval \in MaxRebalanceIntervals :
          calc' = Returned("needsRebalance",
                           <<currentDelta, rebalanceThreshold,
                             timeSinceLastRebalance, maxRebalanceInterval>>,
                           needsRebalance(currentDelta, rebalanceThreshold,
                                          timeSinceLastRebalance,
                                          maxRebalanceInterval))
    /\ CalcFrame

\* Activity lists have at most MaxActivities entries.
MaxActivities == 2

\* Every activity type at $1000 without a multiplier, and two types with
\* other amounts and with multipliers 0 and 2.
Activities ==
    {[type |-> t, amount |-> Num(1000), multiplier |-> Omitted] :
        t \in SatsActivity}
    \cup {[type |-> t, amount |-> a, multiplier |-> m] :
            t \in {"hold_usde", "special_event"},
            a \in {Num(500), Num(1000)},
            m \in {Omitted, Supplied(Num(0)), Supplied(Num(2))}}

CallCalculateDailyEarnings ==
    /\ CalcIdle
    /\ \E activities \in SeqsUpTo(Activities, MaxActivities) :
          calc' = Returned("calculateDailyEarnings", <<activities>>,
                           calculateDailyEarnings(activities))
    /\ CalcFrame

\* Durations in seconds: none, and around a minute, an hour and a day.
Durations ==
    {-100, -1, 0, 1, 59, 60, 61, 3599, 3600, 3665, 9000, 86399, 86400, 86401,
     86460, 90000, 90060, 90061, 172800, 176461}

CallFormatDuration ==
    /\ CalcIdle
    /\ \E seconds \in Durations :
          calc' = Returned("formatDuration", <<seconds>>, formatDuration(seconds))
    /\ CalcFrame

\* The delta of a position is computed and both rebalance decisions are taken
\* on it: needsRebalance with its defaults and calculateRebalanceAmount with
\* target 0.
CallRebalanceDecisions ==
    /\ CalcIdle
    /\ \E spotValue \in SpotValues, perpValue \in PerpValues :
          LET delta == calculateDelta(spotValue, perpValue)
          IN  calc' = Returned("rebalanceDecisions", <<spotValue, perpValue>>,
                               [delta |-> delta,
                                needs |-> needsRebalance(delta, Omitted, Omitted,
                                                         Omitted),
                                rebalance |-> calculateRebalanceAmount(
                                                  spotValue, perpValue,
                                                  Supplied(Num(0)))])
    /\ CalcFrame

\* isDeltaNeutral and needsRebalance (no elapsed time) on the same delta and
\* tolerance.
CallNeutralityDecisions ==
    /\ CalcIdle
    /\ \E delta \in CurrentDeltas, tolerance \in RebalanceThresholds :
          calc' = Returned("neutralityDecisions", <<delta, tolerance>>,
                           [neutral |-> isDeltaNeutral(delta, tolerance),
                            needs |-> needsRebalance(delta, tolerance, Omitted,
                                                     Omitted)])
    /\ CalcFrame

InitCalc == ClockIdle /\ LockIdle /\ CalcIdle /\ TierIdle /\ ProjIdle /\ TrigIdle

NextCalc ==
    \/ CallCalculateEarnings
    \/ CallCalculateExchangeRate
    \/ CallCalculateRateBasedApy
    \/ CallCalculateDelta
    \/ CallCalculateHedgeRatio
    \/ CallEstimateSlippage
    \/ CallEstimateEnaRewards
    \/ CallCalculatePercentile
    \/ CallCalculatePositionPnl
    \/ CallCalculateOptimalAllocation
    \/ CallCalculateCounterpartyRisk
    \/ CallCalculateRebalanceAmount
    \/ ApplyRebalance
    \/ CallRebalanceDecisions
    \/ CallNeutralityDecisions
    \/ CallCalculateLiquidationPrice
    \/ CallCalculateLiquidationPriceAgain
    \/ CallNeedsRebalance
    \/ CallCalculateDailyEarnings
    \/ CallFormatDuration

SpecCalc == InitCalc /\ [][NextCalc]_vars

(***************************************************************************)
(* getMultiplierTier, called twice in a row on balances around the tier    *)
(* thresholds                                                              *)
(***************************************************************************)
\* Balances lie within SatsSlack of a tier threshold.
SatsSlack == 1

SatsInputs ==
    {JsAdd(thresholds[i].sats, Num(k)) :
        i \in 1..Len(thresholds), k \in -SatsSlack..SatsSlack}
    \cup {Fin(9999, 2), Num(60000)}

TierInit ==
    /\ tierCall = NoCall
    /\ tierPrev = NoCall

CallGetMultiplierTier ==
    /\ \E totalSats \in SatsInputs :
          tierCall' = [fn |-> "getMultiplierTier",
                       arg |-> totalSats,
                       res |-> getMultiplierTier(totalSats)]
    /\ tierPrev' = tierCall
    /\ UNCHANGED <<clockVars, lockVars, calcVars, projVars, trigVars>>

InitTier == ClockIdle /\ LockIdle /\ CalcIdle /\ TierInit /\ ProjIdle /\ TrigIdle

NextTier == CallGetMultiplierTier

SpecTier == InitTier /\ [][NextTier]_vars

InitClock == ClockInit /\ LockIdle /\ CalcIdle /\ TierIdle /\ ProjIdle /\ TrigIdle

NextClock ==
    \/ Tick
    \/ CallCooldownStatus
    \/ CallIsCooldownComplete
    \/ CallGetSeasonTimeRemaining

SpecClock == InitClock /\ [][NextClock]_vars

(***************************************************************************)
(* utils/pointsUtils.ts: projectSatsEarnings, run statement by statement.  *)
(* proj holds the arguments, the locals projectedSats and i, the position  *)
(* pc and, once returned, the result.                                      *)
(***************************************************************************)
\* Projections run over 0..MaxDays days.
MaxDays == 3

ProjBalances == {Num(0), Num(4990), Num(24995), Num(1000000)}

ProjRates == {Num(0), Num(8), Fin(5, 2)}

\* Faulty variant of LoopContinues: one day too many.
LoopContinuesInclusive(i, days) == i <= days

\* `i < days`, the condition of the compounding loop.
LoopContinues(i, days) == i < days

ProjFrame == UNCHANGED <<clockVars, lockVars, calcVars, tierVars, trigVars>>

\* `let projectedSats = currentBalance; if (includeCompounding) ...`
CallProjectSatsEarnings ==
    /\ proj.pc = "idle"
    /\ \E currentBalance \in ProjBalances, dailyEarningRate \in ProjRates,
          days \in 0..MaxDays, includeCompounding \in BOOLEAN :
          proj' = [pc |-> IF includeCompounding THEN "loop" ELSE "simple",
                   currentBalance |-> currentBalance,
                   dailyEarningRate |-> dailyEarningRate,
                   days |-> days,
                   includeCompounding |-> includeCompounding,
                   i |-> 0,
                   projectedSats |-> currentBalance,
                   result |-> <<>>]
    /\ ProjFrame

\* One iteration of `for (let i = 0; i < days; i++)`.
ProjectLoopStep ==
    /\ proj.pc = "loop"
    /\ LoopContinues(proj.i, proj.days)
    /\ LET multiplier == getMultiplierTier(proj.projectedSats).multiplier
       IN  proj' = [proj EXCEPT
                      !.projectedSats =
                          JsAdd(@, JsMul(proj.dailyEarningRate, multiplier)),
                      !.i = @ + 1]
    /\ ProjFrame

\* The loop condition fails.
ProjectLoopExit ==
    /\ proj.pc = "loop"
    /\ ~LoopContinues(proj.i, proj.days)
    /\ proj' = [proj EXCEPT !.pc = "tier"]
    /\ ProjFrame

\* `projectedSats += dailyEarningRate * days`
ProjectWithoutCompounding ==
    /\ proj.pc = "simple"
    /\ proj' = [proj EXCEPT
                  !.projectedSats =
                      JsAdd(@, JsMul(proj.dailyEarningRate, Num(proj.days))),
                  !.pc = "tier"]
    /\ ProjFrame

\* `const tierInfo = getMultiplierTier(projectedSats); return {...}`
ProjectReturn ==
    /\ proj.pc = "tier"
    /\ LET tierInfo == getMultiplierTier(proj.projectedSats)
       IN  proj' = [proj EXCEPT
                      !.pc = "done",
                      !.result = [projectedSats |-> proj.projectedSats,
                                  projectedTier |-> tierInfo.tier,
                                  projectedMultiplier |-> tierInfo.multiplier]]
    /\ ProjFrame

InitProject == ClockIdle /\ LockIdle /\ CalcIdle /\ TierIdle /\ ProjIdle /\ TrigIdle

NextProject ==
    \/ CallProjectSatsEarnings
    \/ ProjectLoopStep
    \/ ProjectLoopExit
    \/ ProjectWithoutCompounding
    \/ ProjectReturn

SpecProject == InitProject /\ [][NextProject]_vars

(***************************************************************************)
(* EthenaTrigger.poll: the polling trigger, one action per event mode.     *)
(* The node's parameters are fixed; the static data webhookData persists   *)
(* from one poll to the next.  polls records, for each poll, the static    *)
(* data before and after, the response fetched, the block range scanned    *)
(* and the returnData.                                                     *)
(***************************************************************************)
\* A behaviour runs at most MaxPolls polls.
MaxPolls == 4

TrigFrame == UNCHANGED <<clockVars, lockVars, calcVars, tierVars, projVars>>

\* One entry of polls.
PollRecord(response, scan, returnData, after) ==
    [before |-> webhookData, response |-> response, scan |-> scan,
     returnData |-> returnData, after |-> after]

\* An API call throws, answers without success or data, or answers with data.
Throws == [kind |-> "throws"]

Unsuccessful == [kind |-> "unsuccessful"]

\* api.getYieldData(): currentApy as a fraction, or not a number at all.
YieldResponses ==
    {Throws, Unsuccessful}
    \cup {[kind |-> "data", currentApy |-> a] :
            a \in {Fin(15, 100), Fin(20, 100), Fin(25, 100), NaN}}

\* Faulty variant of ShouldAlert: the stored flag is not consulted.
ShouldAlertWheneverAbove(currentApy, apyThreshold, wasAbove) ==
    JsLeq(apyThreshold, currentApy)

\* `currentApy >= apyThreshold && !wasAbove`
ShouldAlert(currentApy, apyThreshold, wasAbove) ==
    JsLeq(apyThreshold, currentApy) /\ wasAbove # Supplied(TRUE)

\* case 'highYieldAlert'
PollHighYieldAlert ==
    /\ params.event = "highYieldAlert"
    /\ Len(polls) < MaxPolls
    /\ \E yieldResponse \in YieldResponses :
          IF yieldResponse.kind # "data"
          THEN /\ webhookData' = webhookData
               /\ polls' = Append(polls, PollRecord(yieldResponse, <<>>, <<>>,
                                                    webhookData))
          ELSE LET currentApy == JsMul(yieldResponse.currentApy, Num(100))
                   wasAbove == webhookData.wasAboveThreshold
                   alert == ShouldAlert(currentApy, params.apyThreshold, wasAbove)
                   after == IF alert
                            THEN [webhookData EXCEPT
                                    !.wasAboveThreshold = Supplied(TRUE)]
                            ELSE IF JsLess(currentApy, params.apyThreshold)
                            THEN [webhookData EXCEPT
                                    !.wasAboveThreshold = Supplied(FALSE)]
                            ELSE webhookData
                   returnData ==
                       IF alert
                       THEN <<[event |-> "high_yield_alert",
                               currentApy |-> currentApy,
                               threshold |-> params.apyThreshold,
                               message |-> <<"sUSDe APY is now ",
                                             ToFixed2(currentApy),
                                             "%, above threshold of ",
                                             params.apyThreshold, "%">>,
                               timestamp |-> clock]>>
                       ELSE <<>>
               IN  /\ webhookData' = after
                   /\ polls' = Append(polls, PollRecord(yieldResponse, <<>>,
                                                        returnData, after))
    /\ UNCHANGED <<params, head>>
    /\ TrigFrame

\* Points balances fetched range over 0..MaxSats.
MaxSats == 2

\* api.getPointsBalance(filterAddress)
PointsResponses ==
    {Throws, Unsuccessful}
    \cup {[kind |-> "data", totalSats |-> Num(n)] : n \in 0..MaxSats}

\* case 'satsEarned'
PollSatsEarned ==
    /\ params.event = "satsEarned"
    /\ Len(polls) < MaxPolls
    /\ IF params.filterAddress = ""
       THEN /\ webhookData' = webhookData
            /\ polls' = Append(polls, PollRecord([kind |-> "not called"], <<>>,
                                                 <<>>, webhookData))
       ELSE \E pointsResponse \in PointsResponses :
          IF pointsResponse.kind # "data"
          THEN /\ webhookData' = webhookData
               /\ polls' = Append(polls, PollRecord(pointsResponse, <<>>, <<>>,
                                                    webhookData))
          ELSE LET currentSats == pointsResponse.totalSats
                   lastSats == OrElse(webhookData.lastSats, currentSats)
                   after == [webhookData EXCEPT !.lastSats = Supplied(currentSats)]
                   returnData ==
                       IF JsLess(lastSats, currentSats)
                       THEN <<[event |-> "sats_earned",
                               address |-> params.filterAddress,
                               previousSats |-> lastSats,
                               currentSats |-> currentSats,
                               satsEarned |-> JsSub(currentSats, lastSats),
                               timestamp |-> clock]>>
                       ELSE <<>>
               IN  /\ webhookData' = after
                   /\ polls' = Append(polls, PollRecord(pointsResponse, <<>>,
                                                        returnData, after))
    /\ UNCHANGED <<params, head>>
    /\ TrigFrame

\* The chain is at block StartBlock when the trigger is activated and grows
\* by at most MaxBlocks blocks.
StartBlock == 1000

MaxBlocks == 3

\* `await provider.getBlockNumber() - 100`, where a first poll starts.
Lookback == 100

\* String.prototype.toLowerCase on the addresses that occur.
ToLowerCase(address) ==
    CASE address = "0xA" -> "0xa"
      [] address = "0xB" -> "0xb"
      [] address = "0xC" -> "0xc"
      [] OTHER -> address

\* The Transfer log of block b: each block holds one transfer, of 0, 75,000
\* or 150,000 USDe, alternately from 0xA and 0xB.
TransferAt(b) ==
    [from |-> IF b % 2 = 0 THEN "0xA" ELSE "0xB",
     to |-> "0xC",
     amount |-> Num((b % 3) * 75000),
     blockNumber |-> b]

\* contract.queryFilter(filter, fromBlock, toBlock): the logs in block order.
queryFilter(fromBlock, toBlock) ==
    IF fromBlock > toBlock THEN <<>>
    ELSE [i \in 1..(toBlock - fromBlock + 1) |-> TransferAt(fromBlock + i - 1)]

\* Faulty variant of FirstBlockToScan: the block stored is scanned again.
FirstBlockToScanInclusive(lastBlock) == lastBlock

\* `lastBlock + 1`, the fromBlock of the query.
FirstBlockToScan(lastBlock) == lastBlock + 1

\* The `continue` conditions of `for (const evt of events)`: whether the log
\* is pushed to returnData.
IsReported(evt) ==
    LET threshold == IF params.event = "largeUsdeTransfer"
                     THEN params.largeTransferThreshold
                     ELSE params.minAmount
        filterAddress == params.filterAddress
    IN  /\ ~JsLess(evt.amount, threshold)
        /\ ~(/\ filterAddress # ""
             /\ ToLowerCase(evt.from) # ToLowerCase(filterAddress)
             /\ ToLowerCase(evt.to) # ToLowerCase(filterAddress))

\* The entry pushed for a log.  transactionHash and amountRaw are copied from
\* the log and are not kept here.
TransferEntry(evt) ==
    [event |-> IF params.event = "largeUsdeTransfer"
               THEN "whale_transfer" ELSE "transfer",
     from |-> evt.from,
     to |-> evt.to,
     amount |-> evt.amount,
     blockNumber |-> evt.blockNumber,
     timestamp |-> clock]

TransferEntries(events) ==
    LET reported == SelectSeq(events, IsReported)
    IN  [i \in 1..Len(reported) |-> TransferEntry(reported[i])]

\* A block is mined.
MineBlock ==
    /\ params.event \in {"usdeTransfer", "largeUsdeTransfer"}
    /\ head < StartBlock + MaxBlocks
    /\ head' = head + 1
    /\ UNCHANGED <<params, webhookData, polls>>
    /\ TrigFrame

\* case 'usdeTransfer' / 'largeUsdeTransfer'.  An awaited RPC call may reject,
\* which the catch of poll swallows; on a first poll a block may be mined
\* between the two getBlockNumber calls.
PollUsdeTransfer ==
    /\ params.event \in {"usdeTransfer", "largeUsdeTransfer"}
    /\ Len(polls) < MaxPolls
    /\ \E rpc \in {"ok", "throws"}, minedMeanwhile \in {0, 1} :
          /\ minedMeanwhile = 1 =>
                /\ webhookData.lastBlock = Omitted
                /\ head < StartBlock + MaxBlocks
          /\ head' = head + minedMeanwhile
          /\ IF rpc = "throws"
             THEN /\ webhookData' = webhookData
                  /\ polls' = Append(polls, PollRecord(Throws, <<>>, <<>>,
                                                       webhookData))
             ELSE LET lastBlock ==
                          IF webhookData.lastBlock = Omitted
                             \/ webhookData.lastBlock = Supplied(0)
                          THEN head - Lookback
                          ELSE webhookData.lastBlock[1]
                      currentBlock == head'
                      events == queryFilter(FirstBlockToScan(lastBlock),
                                            currentBlock)
                      after == [webhookData EXCEPT
                                  !.lastBlock = Supplied(currentBlock)]
                  IN  /\ webhookData' = after
                      /\ polls' = Append(polls,
                                     PollRecord([kind |-> "data",
                                                 currentBlock |-> currentBlock],
                                                <<FirstBlockToScan(lastBlock),
                                                  currentBlock>>,
                                                TransferEntries(events), after))
    /\ UNCHANGED params
    /\ TrigFrame

TriggerEvents ==
    {"highYieldAlert", "satsEarned", "usdeTransfer", "largeUsdeTransfer"}

TrigInit ==
    /\ params \in [event : TriggerEvents,
                   apyThreshold : {Num(20)},
                   filterAddress : {"", "0xa"},
                   minAmount : {Num(0)},
                   largeTransferThreshold : {Num(100000)}]
    /\ webhookData = [lastBlock |-> Omitted, wasAboveThreshold |-> Omitted,
                      lastSats |-> Omitted]
    /\ head = StartBlock
    /\ polls = <<>>

InitTrigger == ClockIdle /\ LockIdle /\ CalcIdle /\ TierIdle /\ ProjIdle /\ TrigInit

NextTrigger ==
    \/ PollHighYieldAlert
    \/ PollSatsEarned
    \/ MineBlock
    \/ PollUsdeTransfer

SpecTrigger == InitTrigger /\ [][NextTrigger]_vars

(***************************************************************************)
(* Claims about the cooldown status (checked under SpecClock)              *)
(***************************************************************************)
IsStatusCall(c) == c.fn = "calculateCooldownStatus"

\* C1: for every start, end, amount and now, calculateCooldownStatus returns
\* progress within [0, 100], clamped at both ends (also when now < start or
\* now > end), and progress = 0 when end - start = 0.
C1_ProgressWithinBounds ==
    IsStatusCall(q) =>
        /\ JsLeq(Num(0), q.res.progress)
        /\ JsLeq(q.res.progress, Num(100))
        /\ (cd.end - cd.start = 0 => q.res.progress = Num(0))

\* C2: for every start, end, amount and every supplied now >= 0, isActive holds
\* exactly when start > 0 and amount > 0, canWithdraw exactly when isActive and
\* now >= end, and remainingSeconds = max(0, end - now); an inactive result
\* never has canWithdraw = true.
C2_StatusClassification ==
    (IsStatusCall(q) /\ q.arg # Omitted) =>
        LET now == q.arg[1]
        IN  /\ q.res.isActive = (cd.start > 0 /\ cd.amount > 0)
            /\ q.res.canWithdraw = (q.res.isActive /\ now >= cd.end)
            /\ q.res.remainingSeconds = (IF cd.end > now THEN cd.end - now ELSE 0)
            /\ (~q.res.isActive => ~q.res.canWithdraw)

\* C3: for a fixed active window, as the supplied now advances from one status
\* query to the next, remainingSeconds never increases and canWithdraw never
\* goes from true back to false; canWithdraw agrees with
\* isCooldownComplete(end, now) called with the same now, and it is true at
\* every query with now >= end.
C3_WithdrawableOnceComplete ==
    (cd.start > 0 /\ cd.amount > 0) =>
        /\ (IsStatusCall(q) /\ q.arg # Omitted /\ q.arg[1] >= cd.end)
               => q.res.canWithdraw
        /\ (IsStatusCall(qPrev) /\ IsStatusCall(q)
               /\ qPrev.arg # Omitted /\ q.arg # Omitted
               /\ qPrev.arg[1] <= q.arg[1])
               => /\ q.res.remainingSeconds <= qPrev.res.remainingSeconds
                  /\ (qPrev.res.canWithdraw => q.res.canWithdraw)
        /\ (IsStatusCall(qPrev) /\ q.fn = "isCooldownComplete"
               /\ qPrev.arg # Omitted /\ qPrev.arg = q.arg)
               => q.res = qPrev.res.canWithdraw

\* C6: every engine function is deterministic: two calls of the same function
\* with identical arguments return identical results (none reads the wall
\* clock); this covers calculateCooldownStatus, isCooldownComplete (for every
\* now, omitted and 0 included) and getSeasonTimeRemaining.
C6_SameArgumentsSameResult ==
    (q.fn # "none" /\ qPrev.fn = q.fn /\ qPrev.arg = q.arg) => qPrev.res = q.res

(***************************************************************************)
(* Claims about validateCooldownAmount (checked under SpecLock)            *)
(***************************************************************************)
\* C4: validateCooldownAmount(requested, available, existingLocked) returns
\* isValid = true exactly when 0 < requested <= available - existingLocked;
\* requested <= 0 yields the 'greater than 0' error, a positive requested above
\* the ceiling yields the 'Insufficient balance' error, and maxAmount equals
\* available - existingLocked in all three outcomes.
C4_ValidationOutcome ==
    validation.fn = "validateCooldownAmount" =>
        LET requested == validation.arg[1]
            ceiling == available - existingLocked
        IN  /\ validation.res.isValid = (0 < requested /\ requested <= ceiling)
            /\ (requested <= 0
                   => validation.res.error = "Amount must be greater than 0")
            /\ (requested > 0 /\ requested > ceiling
                   => validation.res.error
                          = "Insufficient balance. Maximum available: ")
            /\ validation.res.maxAmount = ceiling

\* A request for exactly the ceiling, with part of the balance already locked,
\* has been accepted.
C4_Witness ==
    /\ validation.fn = "validateCooldownAmount"
    /\ existingLocked > 0
    /\ validation.arg[1] = available - existingLocked
    /\ validation.res.isValid

(***************************************************************************)
(* Claims about the calculators (checked under SpecCalc)                   *)
(***************************************************************************)
\* C5: calculateEarnings called with days = 0 fails with an explicit
\* InvalidArgument error, for every principal, apy and compounding mode,
\* instead of returning a result obtained by dividing by zero.
C5_ZeroDaysRejected ==
    (calc.fn = "calculateEarnings" /\ calc.arg[3] = 0)
        => calc.outcome = "threw InvalidArgument"

\* C7: each documented zero-denominator input returns its fallback value:
\* calculateExchangeRate(x, 0) = 1, calculateDelta(0, x) = 0,
\* calculateHedgeRatio(x, 0) = 0, estimateSlippage(x, 0) = 1,
\* estimateEnaRewards(x, 0, y) = 0 and calculateRateBasedApy(0, x, d) = 0, for
\* every value of the other arguments.
C7_ZeroDenominatorFallbacks ==
    /\ (calc.fn = "calculateExchangeRate" /\ calc.arg[2] = 0)
           => (calc.outcome = "returned" /\ calc.res = Num(1))
    /\ (calc.fn = "calculateDelta" /\ IsZero(calc.arg[1]))
           => (calc.outcome = "returned" /\ calc.res = Num(0))
    /\ (calc.fn = "calculateHedgeRatio" /\ IsZero(calc.arg[2]))
           => (calc.outcome = "returned" /\ calc.res = Num(0))
    /\ (calc.fn = "estimateSlippage" /\ IsZero(calc.arg[2]))
           => (calc.outcome = "returned" /\ calc.res = Num(1))
    /\ (calc.fn = "estimateEnaRewards" /\ IsZero(calc.arg[2]))
           => (calc.outcome = "returned" /\ calc.res = Num(0))
    /\ (calc.fn = "calculateRateBasedApy" /\ IsZero(calc.arg[1]))
           => (calc.outcome = "returned" /\ calc.res = Num(0))

\* estimateEnaRewards has been called with a zero season total and non-zero
\* user sats and pool.
C7_Witness ==
    /\ calc.fn = "estimateEnaRewards"
    /\ calc.arg = <<Num(1), Num(0), Num(2)>>
    /\ calc.res = Num(0)

AllocationsFinite(allocations) ==
    \A i \in 1..Len(allocations) :
        IsFiniteNum(allocations[i].allocation) /\ IsFiniteNum(allocations[i].percent)

RiskFinite(risk) ==
    /\ IsFiniteNum(risk.concentration)
    /\ IsFiniteNum(risk.largestExposure.percent)
    /\ \A i \in 1..Len(risk.distribution) :
           IsFiniteNum(risk.distribution[i].percent)

\* C8: no engine function divides by zero outside the documented fallback
\* cases: for all finite non-negative inputs, calculatePercentile (empty
\* population included), calculatePositionPnl (entryPrice x size = 0 included),
\* calculateOptimalAllocation (zero total liquidity or totalSize = 0 included)
\* and calculateCounterpartyRisk (zero total exposure included) return
\* defined, finite results.
C8_NoDivisionByZero ==
    /\ calc.fn = "calculatePercentile" => IsFiniteNum(calc.res)
    /\ calc.fn = "calculatePositionPnl"
           => (IsFiniteNum(calc.res.pnl) /\ IsFiniteNum(calc.res.pnlPercent))
    /\ calc.fn = "calculateOptimalAllocation" => AllocationsFinite(calc.res)
    /\ (calc.fn = "calculateCounterpartyRisk"
           /\ \A i \in 1..Len(calc.arg[1]) : JsLeq(Num(0), calc.arg[1][i].value))
           => RiskFinite(calc.res)

(***************************************************************************)
(* Claims about getMultiplierTier (checked under SpecTier)                 *)
(***************************************************************************)
\* The tier table as the claims state it.
StatedTiers ==
    [base |-> [threshold |-> Num(0), multiplier |-> Num(1)],
     bronze |-> [threshold |-> Num(5000), multiplier |-> Fin(125, 100)],
     silver |-> [threshold |-> Num(25000), multiplier |-> Fin(15, 10)],
     gold |-> [threshold |-> Num(100000), multiplier |-> Num(2)],
     platinum |-> [threshold |-> Num(500000), multiplier |-> Num(3)],
     diamond |-> [threshold |-> Num(1000000), multiplier |-> Num(5)]]

TierNames == DOMAIN StatedTiers

TierRank(tier) ==
    Cardinality({u \in TierNames :
                    JsLess(StatedTiers[u].threshold, StatedTiers[tier].threshold)})

\* The highest tier whose threshold is <= totalSats.
HighestTierAtMost(totalSats) ==
    CHOOSE tier \in TierNames :
        /\ JsLeq(StatedTiers[tier].threshold, totalSats)
        /\ \A u \in TierNames :
               JsLeq(StatedTiers[u].threshold, totalSats)
                   => TierRank(u) <= TierRank(tier)

IsTierCall(c) == c.fn = "getMultiplierTier" /\ JsLeq(Num(0), c.arg)

\* C9: for every totalSats >= 0, getMultiplierTier returns the highest tier
\* whose threshold is <= totalSats together with that tier's multiplier; so
\* neither the tier rank nor the multiplier decreases as totalSats grows.
C9_HighestTierReached ==
    /\ IsTierCall(tierCall)
           => /\ tierCall.res.tier = HighestTierAtMost(tierCall.arg)
              /\ tierCall.res.multiplier
                     = StatedTiers[HighestTierAtMost(tierCall.arg)].multiplier
    /\ (IsTierCall(tierPrev) /\ IsTierCall(tierCall)
           /\ JsLeq(tierPrev.arg, tierCall.arg))
           => /\ TierRank(tierPrev.res.tier) <= TierRank(tierCall.res.tier)
              /\ JsLeq(tierPrev.res.multiplier, tierCall.res.multiplier)

\* A balance of exactly 100,000 has been ranked gold, right after a balance
\* one below it was ranked silver.
C9_Witness ==
    /\ tierPrev.fn = "getMultiplierTier"
    /\ tierPrev.arg = Num(99999)
    /\ tierPrev.res.tier = "silver"
    /\ tierCall.arg = Num(100000)
    /\ tierCall.res.tier = "gold"
    /\ tierCall.res.multiplier = Num(2)

\* C10: for every totalSats >= 0, getMultiplierTier omits nextTier and
\* satsToNextTier exactly when the returned tier is diamond; otherwise nextTier
\* is the tier one rank above the returned tier, satsToNextTier = (threshold of
\* nextTier) - totalSats is strictly positive, and
\* getMultiplierTier(totalSats + satsToNextTier).tier equals nextTier.
C10_NextTierDistance ==
    IsTierCall(tierCall) =>
        LET res == tierCall.res
        IN  /\ (res.nextTier = Omitted) = (res.tier = "diamond")
            /\ (res.satsToNextTier = Omitted) = (res.tier = "diamond")
            /\ res.tier # "diamond"
                   => /\ res.nextTier[1] \in TierNames
                      /\ TierRank(res.nextTier[1]) = TierRank(res.tier) + 1
                      /\ res.satsToNextTier[1]
                             = JsSub(StatedTiers[res.nextTier[1]].threshold,
                                     tierCall.arg)
                      /\ JsLess(Num(0), res.satsToNextTier[1])
                      /\ getMultiplierTier(JsAdd(tierCall.arg,
                                                 res.satsToNextTier[1])).tier
                             = res.nextTier[1]

\* A balance of 4,999.5 has been ranked base, half a sat short of bronze.
C10_Witness ==
    /\ tierCall.fn = "getMultiplierTier"
    /\ tierCall.arg = Fin(9999, 2)
    /\ tierCall.res.tier = "base"
    /\ tierCall.res.nextTier = Supplied("bronze")
    /\ tierCall.res.satsToNextTier = Supplied(Fin(1, 2))

(***************************************************************************)
(* Claims about projectSatsEarnings (checked under SpecProject)            *)
(***************************************************************************)
\* The balance after k more days of compounding from a balance, as the claim
\* states it: each day adds dailyRate x the multiplier of the tier of the
\* balance before that day.
RECURSIVE CompoundedDays(_, _, _)
CompoundedDays(balance, dailyRate, k) ==
    IF k = 0 THEN balance
    ELSE CompoundedDays(
             JsAdd(balance,
                   JsMul(dailyRate,
                         StatedTiers[HighestTierAtMost(balance)].multiplier)),
             dailyRate, k - 1)

\* C11: without compounding projectSatsEarnings returns projectedSats =
\* currentBalance + dailyRate x days; with compounding it performs exactly
\* `days` steps, each adding dailyRate x the multiplier of the tier of the
\* running balance before the step, and then returns; in both modes
\* projectedTier and projectedMultiplier are those of the tier of projectedSats.
C11_ProjectionSteps ==
    /\ [](proj.pc = "done" =>
            /\ proj.includeCompounding =>
                  /\ proj.i = proj.days
                  /\ proj.result.projectedSats
                         = CompoundedDays(proj.currentBalance,
                                          proj.dailyEarningRate, proj.days)
            /\ ~proj.includeCompounding =>
                  proj.result.projectedSats
                      = JsAdd(proj.currentBalance,
                              JsMul(proj.dailyEarningRate, Num(proj.days)))
            /\ proj.result.projectedTier
                   = HighestTierAtMost(proj.result.projectedSats)
            /\ proj.result.projectedMultiplier
                   = StatedTiers[proj.result.projectedTier].multiplier)
    /\ [][(proj.pc = "loop" /\ proj'.pc = "loop") =>
             /\ proj'.i = proj.i + 1
             /\ proj'.i <= proj.days
             /\ proj'.projectedSats
                    = JsAdd(proj.projectedSats,
                            JsMul(proj.dailyEarningRate,
                                  StatedTiers[HighestTierAtMost(proj.projectedSats)]
                                      .multiplier))]_vars

\* A compounding projection of 3 days from 4,990 at 8 a day has returned: the
\* balance crosses the bronze threshold on the second day, so the third day
\* earns 8 x 1.25.
C11_Witness ==
    /\ proj.pc = "done"
    /\ proj.includeCompounding
    /\ proj.currentBalance = Num(4990)
    /\ proj.dailyEarningRate = Num(8)
    /\ proj.days = 3
    /\ proj.result.projectedSats = Num(5016)
    /\ proj.result.projectedTier = "bronze"

(***************************************************************************)
(* Claims about the delta-neutral calculators (checked under SpecCalc)     *)
(***************************************************************************)
\* C12: calculateRebalanceAmount(spot, perp, target) computes rebalanceDelta =
\* spot x (target - 1) - perp and returns 'none' (amount 0, newPerpValue =
\* perp) exactly when |rebalanceDelta| < 0.1% of spot; otherwise
\* 'increase_short' when rebalanceDelta < 0 and 'decrease_short' when
\* rebalanceDelta > 0, with amount = |rebalanceDelta| and newPerpValue =
\* spot x (target - 1).
C12_RebalanceAction ==
    calc.fn = "calculateRebalanceAmount" =>
        LET spot == calc.arg[1]
            perp == calc.arg[2]
            target == IF calc.arg[3] = Omitted THEN Num(0) ELSE calc.arg[3][1]
            hedge == JsMul(spot, JsSub(target, Num(1)))
            rebalanceDelta == JsSub(hedge, perp)
            negligible == JsLess(JsAbs(rebalanceDelta), JsDiv(spot, Num(1000)))
        IN  /\ (calc.res.action = "none") <=> negligible
            /\ negligible =>
                  /\ calc.res.amount = Num(0)
                  /\ calc.res.newPerpValue = perp
            /\ ~negligible =>
                  /\ JsLess(rebalanceDelta, Num(0))
                        => calc.res.action = "increase_short"
                  /\ JsLess(Num(0), rebalanceDelta)
                        => calc.res.action = "decrease_short"
                  /\ calc.res.amount = JsAbs(rebalanceDelta)
                  /\ calc.res.newPerpValue = hedge

\* A spot of 1000 hedged by -999 deviates by exactly 0.1% of spot, which is
\* not below the tolerance: the short is increased by 1.
C12_Witness ==
    /\ calc.fn = "calculateRebalanceAmount"
    /\ calc.arg = <<Num(1000), Num(-999), Omitted>>
    /\ calc.res.action = "increase_short"
    /\ calc.res.amount = Num(1)

\* C13: for every spotValue > 0 and perpValue, calculateDelta returns
\* (spotValue + perpValue) / spotValue, which is 0 exactly when perpValue =
\* -spotValue, positive exactly when perpValue > -spotValue and negative
\* exactly when perpValue < -spotValue.
C13_DeltaSign ==
    (calc.fn = "calculateDelta" /\ JsLess(Num(0), calc.arg[1])) =>
        LET spotValue == calc.arg[1]
            perpValue == calc.arg[2]
            hedged == JsNeg(spotValue)
        IN  /\ calc.res = JsDiv(JsAdd(spotValue, perpValue), spotValue)
            /\ (calc.res = Num(0)) <=> (perpValue = hedged)
            /\ JsLess(Num(0), calc.res) <=> JsLess(hedged, perpValue)
            /\ JsLess(calc.res, Num(0)) <=> JsLess(perpValue, hedged)

\* A spot of 0.5 against a perp of -1 is over-hedged: delta = -1.
C13_Witness ==
    /\ calc.fn = "calculateDelta"
    /\ calc.arg = <<Fin(1, 2), Num(-1)>>
    /\ calc.res = Num(-1)

\* C14: for fixed entryPrice > 0, side and maintenanceMargin, and any two
\* leverages 1 <= L1 < L2, the liquidation price at L2 is strictly closer to
\* entryPrice than the liquidation price at L1.
C14_HigherLeverageCloser ==
    (/\ calc.fn = "calculateLiquidationPrice"
     /\ "first" \in DOMAIN calc
     /\ JsLeq(Num(1), calc.first.arg[2])
     /\ JsLess(calc.first.arg[2], calc.arg[2]))
        => JsLess(JsAbs(JsSub(calc.res, calc.arg[1])),
                  JsAbs(JsSub(calc.first.res, calc.arg[1])))

\* C15: for every entryPrice > 0 and leverage >= 1 with the default
\* maintenance margin 0.005, calculateLiquidationPrice returns a price
\* strictly below entryPrice for a long position and strictly above
\* entryPrice for a short position.
C15_LiquidationSide ==
    (/\ calc.fn = "calculateLiquidationPrice"
     /\ calc.arg[4] = Omitted
     /\ JsLeq(Num(1), calc.arg[2]))
        => IF calc.arg[3]
           THEN JsLess(calc.arg[1], calc.res)
           ELSE JsLess(calc.res, calc.arg[1])

\* The total absolute exposure of the positions held on one exchange.
RECURSIVE ExposureOn(_, _)
ExposureOn(positions, exchange) ==
    IF positions = <<>> THEN Num(0)
    ELSE JsAdd(ExposureOn(Tail(positions), exchange),
               IF Head(positions).exchange = exchange
               THEN JsAbs(Head(positions).value) ELSE Num(0))

ExchangesOf(positions) == {positions[i].exchange : i \in 1..Len(positions)}

RECURSIVE SumOver(_, _)
SumOver(f, S) ==
    IF S = {} THEN Num(0)
    ELSE LET x == CHOOSE y \in S : TRUE
         IN  JsAdd(f[x], SumOver(f, S \ {x}))

\* What the claim says of the risk returned for a list of positions.
RiskAsClaimed(positions, risk) ==
    LET exchanges == ExchangesOf(positions)
        n == Cardinality(exchanges)
        total == SumOver([e \in exchanges |-> ExposureOn(positions, e)], exchanges)
        percentOf == [e \in exchanges |->
                         JsMul(JsDiv(ExposureOn(positions, e), total), Num(100))]
        squareOf == [e \in exchanges |->
                        JsMul(JsDiv(percentOf[e], Num(100)),
                              JsDiv(percentOf[e], Num(100)))]
        entries == {risk.distribution[i] : i \in 1..Len(risk.distribution)}
    IN  /\ Len(risk.distribution) = n
        /\ entries = {[exchange |-> e, percent |-> percentOf[e]] : e \in exchanges}
        /\ SumOver([e \in exchanges |-> percentOf[e]], exchanges) = Num(100)
        /\ risk.concentration = SumOver(squareOf, exchanges)
        /\ JsLeq(Fin(1, n), risk.concentration)
        /\ JsLeq(risk.concentration, Num(1))
        /\ risk.largestExposure \in entries
        /\ \A entry \in entries :
               JsLeq(entry.percent, risk.largestExposure.percent)

\* C16: for every non-empty position list, calculateCounterpartyRisk returns
\* per-exchange percentages of total absolute exposure that sum to 100
\* (positions of the same exchange merged), concentration = sum of squared
\* fractional shares, within [1/n, 1] for n distinct exchanges, and
\* largestExposure naming an exchange whose percentage is the maximum.
C16_RiskOfEveryNonEmptyList ==
    (calc.fn = "calculateCounterpartyRisk" /\ calc.arg[1] # <<>>)
        => RiskAsClaimed(calc.arg[1], calc.res)

\* C16, amended: the same for every position list whose total absolute
\* exposure is greater than 0.
C16_RiskOfExposedList ==
    (/\ calc.fn = "calculateCounterpartyRisk"
     /\ \E i \in 1..Len(calc.arg[1]) : ~IsZero(calc.arg[1][i].value))
        => RiskAsClaimed(calc.arg[1], calc.res)

\* Two positions on the same exchange, 3 long and 1 short, are merged into
\* one share of 100%.
C16_Witness ==
    /\ calc.fn = "calculateCounterpartyRisk"
    /\ calc.arg[1] = <<[exchange |-> "A", value |-> Num(3)],
                       [exchange |-> "A", value |-> Num(-1)]>>
    /\ calc.res.distribution = <<[exchange |-> "A", percent |-> Num(100)]>>
    /\ calc.res.concentration = Num(1)

\* The size still unallocated before the i-th exchange is served.
RECURSIVE RemainingBefore(_, _, _)
RemainingBefore(i, totalSize, allocations) ==
    IF i = 1 THEN totalSize
    ELSE JsSub(RemainingBefore(i - 1, totalSize, allocations),
               allocations[i - 1].allocation)

\* x is the least of the numbers of S.
IsMinOf(x, S) == x \in S /\ \A y \in S : JsLeq(x, y)

\* C17: calculateOptimalAllocation returns, in input order, one entry per
\* exchange whose allocation is min(liquidity-proportional share of totalSize,
\* the exchange's maxPosition, size still unallocated); hence for non-negative
\* inputs every allocation is >= 0 and <= its maxPosition and the allocations
\* sum to at most totalSize (nothing withheld by a cap goes to a later
\* exchange).
C17_GreedyCappedAllocation ==
    calc.fn = "calculateOptimalAllocation" =>
        LET totalSize == calc.arg[1]
            exchanges == calc.arg[2]
            allocations == calc.res
            totalLiquidity ==
                SumOver([i \in 1..Len(exchanges) |-> exchanges[i].liquidity],
                        1..Len(exchanges))
            share(i) == JsMul(JsDiv(exchanges[i].liquidity, totalLiquidity),
                              totalSize)
        IN  /\ Len(allocations) = Len(exchanges)
            /\ \A i \in 1..Len(exchanges) :
                  /\ allocations[i].exchange = exchanges[i].id
                  /\ IsMinOf(allocations[i].allocation,
                             {share(i), exchanges[i].maxPosition,
                              RemainingBefore(i, totalSize, allocations)})
                  /\ JsLeq(Num(0), allocations[i].allocation)
                  /\ JsLeq(allocations[i].allocation, exchanges[i].maxPosition)
            /\ JsLeq(Num(0),
                     RemainingBefore(Len(exchanges) + 1, totalSize, allocations))

\* C18: needsRebalance returns shouldRebalance = true with a delta reason
\* whenever |currentDelta| > threshold (before the time check), true with a
\* time reason when |currentDelta| <= threshold and timeSinceLast >
\* maxInterval, and false in every other case, including |currentDelta| =
\* threshold, timeSinceLast = maxInterval and timeSinceLast omitted.
C18_RebalanceDecision ==
    calc.fn = "needsRebalance" =>
        LET currentDelta == calc.arg[1]
            threshold == IF calc.arg[2] = Omitted THEN Fin(2, 100)
                         ELSE calc.arg[2][1]
            maxInterval == IF calc.arg[4] = Omitted THEN Num(86400)
                           ELSE calc.arg[4][1]
            exceeds == JsLess(threshold, JsAbs(currentDelta))
            overdue == /\ calc.arg[3] # Omitted
                       /\ JsLess(maxInterval, calc.arg[3][1])
        IN  /\ exceeds =>
                  /\ calc.res.shouldRebalance
                  /\ calc.res.reason[1] = "Delta exposure "
            /\ (~exceeds /\ overdue) =>
                  /\ calc.res.shouldRebalance
                  /\ calc.res.reason
                         = <<"Maximum time since last rebalance exceeded">>
            /\ (~exceeds /\ ~overdue) => ~calc.res.shouldRebalance

\* A delta of exactly the default threshold, a day and a second after the
\* last rebalance: rebalance for the time, not for the delta.
C18_Witness ==
    /\ calc.fn = "needsRebalance"
    /\ calc.arg = <<Fin(2, 100), Omitted, Supplied(Num(86401)), Omitted>>
    /\ calc.res.shouldRebalance
    /\ calc.res.reason = <<"Maximum time since last rebalance exceeded">>

(***************************************************************************)
(* Claims about the points calculators (checked under SpecCalc)            *)
(***************************************************************************)
Reversed(xs) == [i \in 1..Len(xs) |-> xs[Len(xs) + 1 - i]]

\* C19: for every value and every non-empty population, calculatePercentile
\* returns 100 x (number of members strictly less than value) / (population
\* size): members equal to value are not counted, the result lies in
\* [0, 100], and it does not depend on the order of the population.
C19_PercentileOfStrictlyLess ==
    (calc.fn = "calculatePercentile" /\ calc.arg[2] # <<>>) =>
        LET value == calc.arg[1]
            population == calc.arg[2]
            below == {i \in 1..Len(population) : JsLess(population[i], value)}
        IN  /\ calc.res = JsDiv(Num(100 * Cardinality(below)),
                                Num(Len(population)))
            /\ JsLeq(Num(0), calc.res)
            /\ JsLeq(calc.res, Num(100))
            /\ calculatePercentile(value, Reversed(population)) = calc.res

\* The value 1 in the unsorted population [1, 0]: only 0 is strictly less, the
\* member equal to 1 is not counted, so the percentile is 50.
C19_Witness ==
    /\ calc.fn = "calculatePercentile"
    /\ calc.arg = <<Num(1), <<Num(1), Num(0)>>>>
    /\ calc.res = Num(50)

\* The base rates per $1000 per day, as the claim lists them.
StatedBaseRates ==
    [hold_usde |-> 10, stake_susde |-> 20, provide_liquidity |-> 30,
     referral |-> 5, early_adopter |-> 15, defi_integration |-> 25,
     governance |-> 10, special_event |-> 50]

\* (amount / 1000) x baseRate(type) x multiplier, the multiplier being 1 only
\* when it is absent.
StatedEarningsOf(activity) ==
    JsMul(JsMul(JsDiv(activity.amount, Num(1000)),
                Num(StatedBaseRates[activity.type])),
          IF activity.multiplier = Omitted THEN Num(1)
          ELSE activity.multiplier[1])

\* C20: for every list of activities, calculateDailyEarnings returns the sum
\* over the activities of (amount / 1000) x baseRate(type) x multiplier with
\* the fixed rate table, where the multiplier counts as 1 only when it is
\* absent; the result is 0 for an empty list and does not depend on the
\* order of the activities.
C20_DailyEarningsSum ==
    calc.fn = "calculateDailyEarnings" =>
        LET activities == calc.arg[1]
        IN  /\ calc.res
                   = SumOver([i \in 1..Len(activities) |->
                                 StatedEarningsOf(activities[i])],
                             1..Len(activities))
            /\ activities = <<>> => calc.res = Num(0)
            /\ calculateDailyEarnings(Reversed(activities)) = calc.res

(***************************************************************************)
(* Claims about formatDuration and the APR/APY conversion (SpecCalc)       *)
(***************************************************************************)
\* 'Nd Nh Nm Ns' as the claim composes it: the non-zero components in order,
\* without the seconds when days > 0.
StatedDuration(s) ==
    LET components == <<[n |-> s \div 86400, u |-> "d"],
                        [n |-> (s % 86400) \div 3600, u |-> "h"],
                        [n |-> (s % 3600) \div 60, u |-> "m"],
                        [n |-> s % 60, u |-> "s"]>>
        Shown(c) == c.n > 0 /\ ~(c.u = "s" /\ components[1].n > 0)
    IN  SelectSeq(components, Shown)

\* C21: formatDuration returns "Ready" for every seconds <= 0; for every
\* integer seconds > 0 it returns the non-zero components among days, hours,
\* minutes and seconds, in that order, omitting the seconds whenever days > 0,
\* and never an empty string or '0s'.
C21_DurationComponents ==
    calc.fn = "formatDuration" =>
        LET seconds == calc.arg[1]
        IN  /\ seconds <= 0 => calc.res = <<[n |-> 0, u |-> "Ready"]>>
            /\ seconds > 0 =>
                  /\ calc.res = StatedDuration(seconds)
                  /\ calc.res # <<>>
                  /\ calc.res # <<[n |-> 0, u |-> "s"]>>

\* A day and a second is shown as '1d': the second is dropped.
C21_Witness ==
    /\ calc.fn = "formatDuration"
    /\ calc.arg = <<86401>>
    /\ calc.res = <<[n |-> 1, u |-> "d"]>>

(***************************************************************************)
(* Claim about a sequence of cooldown requests (checked under SpecRequests) *)
(***************************************************************************)
\* C23: starting from 0 <= existingLocked <= available, if every request
\* accepted by validateCooldownAmount is added to existingLocked and every
\* rejected request changes nothing, then after any sequence of requests
\* 0 <= existingLocked <= available still holds and the returned maxAmount is
\* never negative.
C23_LockedWithinBalance ==
    /\ 0 <= existingLocked
    /\ existingLocked <= available
    /\ validation.fn = "validateCooldownAmount" => validation.res.maxAmount >= 0

\* After an earlier accepted request, a second request of the whole remaining
\* ceiling has been accepted: nothing is left to cool down.
C23_Witness ==
    /\ validation.fn = "validateCooldownAmount"
    /\ validation.res.isValid
    /\ validation.arg[3] > 0
    /\ validation.arg[1] = validation.res.maxAmount
    /\ existingLocked = available

(***************************************************************************)
(* Claims about the rebalance recommendation (checked under SpecCalc)      *)
(***************************************************************************)
\* C24: for every spot > 0, perp and targetDelta, applying the recommendation
\* of calculateRebalanceAmount converges in one step: when the action is not
\* 'none', calculateDelta(spot, newPerpValue) equals targetDelta, and in
\* every case a second call calculateRebalanceAmount(spot, newPerpValue,
\* targetDelta) returns 'none' with amount 0.
C24_RebalanceConverges ==
    (/\ calc.fn = "calculateRebalanceAmount"
     /\ "first" \in DOMAIN calc
     /\ JsLess(Num(0), calc.arg[1]))
        => /\ calc.first.res.action # "none"
                => calc.delta = (IF calc.arg[3] = Omitted THEN Num(0)
                                 ELSE calc.arg[3][1])
           /\ calc.res.action = "none"
           /\ calc.res.amount = Num(0)

\* A spot of 1000 hedged by -1500 with a target delta of 0.5: the short is
\* decreased to -500, after which delta is 0.5 and nothing remains to do.
C24_Witness ==
    /\ calc.fn = "calculateRebalanceAmount"
    /\ "first" \in DOMAIN calc
    /\ calc.first.arg = <<Num(1000), Num(-1500), Supplied(Fin(1, 2))>>
    /\ calc.first.res.action = "decrease_short"
    /\ calc.arg[2] = Num(-500)
    /\ calc.delta = Fin(1, 2)
    /\ calc.res.action = "none"

\* C25: whenever calculateRebalanceAmount returns an action other than
\* 'none', the returned amount is strictly positive, for every spot >= 0
\* (spot = 0 included) and every perp and targetDelta; amount = 0 occurs only
\* together with 'none'.
C25_ActionHasPositiveAmount ==
    (/\ calc.fn = "calculateRebalanceAmount"
     /\ JsLeq(Num(0), calc.arg[1])
     /\ calc.res.action # "none")
        => JsLess(Num(0), calc.res.amount)

\* C26: for every spot > 0 and perp, whenever needsRebalance(calculateDelta(
\* spot, perp)) with the default threshold reports shouldRebalance = true for
\* the delta reason, calculateRebalanceAmount(spot, perp, 0) returns an
\* action other than 'none'; and whenever isDeltaNeutral(delta, t) is true,
\* needsRebalance(delta, t) with no elapsed time reports false.
C26_DecisionsConsistent ==
    /\ (/\ calc.fn = "rebalanceDecisions"
        /\ JsLess(Num(0), calc.arg[1])
        /\ calc.res.needs.shouldRebalance
        /\ calc.res.needs.reason[1] = "Delta exposure ")
           => calc.res.rebalance.action # "none"
    /\ (/\ calc.fn = "neutralityDecisions"
        /\ calc.arg[2] # Omitted
        /\ calc.res.neutral)
           => ~calc.res.needs.shouldRebalance

\* A spot of 1000 hedged by -979 has a delta of 2.1%: needsRebalance fires
\* for the delta and the short is to be increased by 21.
C26_Witness ==
    /\ calc.fn = "rebalanceDecisions"
    /\ calc.arg = <<Num(1000), Num(-979)>>
    /\ calc.res.delta = Fin(21, 1000)
    /\ calc.res.needs.shouldRebalance
    /\ calc.res.rebalance.action = "increase_short"
    /\ calc.res.rebalance.amount = Num(21)

(***************************************************************************)
(* Claim about the compounding projection (checked under SpecProject)      *)
(***************************************************************************)
\* The projection without compounding.
LinearProjection ==
    JsAdd(proj.currentBalance, JsMul(proj.dailyEarningRate, Num(proj.days)))

\* The running balance is below the bronze threshold before every step.
BelowBronzeBeforeEveryStep ==
    \A k \in 0..(proj.days - 1) :
        JsLess(CompoundedDays(proj.currentBalance, proj.dailyEarningRate, k),
               Num(5000))

\* In every step of the compounding loop neither the running balance nor the
\* multiplier applied decreases.
CompoundingNeverDecreases ==
    [][(proj.pc = "loop" /\ proj'.pc = "loop") =>
          /\ JsLeq(proj.projectedSats, proj'.projectedSats)
          /\ JsLeq(StatedTiers[HighestTierAtMost(proj.projectedSats)].multiplier,
                   StatedTiers[HighestTierAtMost(proj'.projectedSats)].multiplier)
      ]_vars

\* C27: for every currentBalance >= 0, dailyRate >= 0 and integer days >= 0,
\* projectSatsEarnings with compounding returns projectedSats >=
\* currentBalance + dailyRate x days, with equality exactly when the running
\* balance is below the bronze threshold 5,000 before every step; during the
\* simulation the running balance and the multiplier applied never decrease.
C27_CompoundingAtLeastLinear ==
    /\ [](/\ proj.pc = "done"
          /\ proj.includeCompounding
          => /\ JsLeq(LinearProjection, proj.result.projectedSats)
             /\ (proj.result.projectedSats = LinearProjection)
                    <=> BelowBronzeBeforeEveryStep)
    /\ CompoundingNeverDecreases

\* C27, amended: the same, with equality exactly when dailyRate = 0 or the
\* running balance is below the bronze threshold before every step.
C27_CompoundingAtLeastLinearUnlessIdle ==
    /\ [](/\ proj.pc = "done"
          /\ proj.includeCompounding
          => /\ JsLeq(LinearProjection, proj.result.projectedSats)
             /\ (proj.result.projectedSats = LinearProjection)
                    <=> (IsZero(proj.dailyEarningRate)
                         \/ BelowBronzeBeforeEveryStep))
    /\ CompoundingNeverDecreases

\* A compounding projection of 3 days from 4,990 at 8 a day has returned
\* 5,016, above the 5,014 of the projection without compounding: the balance
\* was at 5,006, in bronze, before the third step.
C27_Witness ==
    /\ proj.pc = "done"
    /\ proj.includeCompounding
    /\ proj.currentBalance = Num(4990)
    /\ proj.dailyEarningRate = Num(8)
    /\ proj.days = 3
    /\ LinearProjection = Num(5014)
    /\ proj.result.projectedSats = Num(5016)
    /\ ~BelowBronzeBeforeEveryStep

(***************************************************************************)
(* Claims about the polling trigger (checked under SpecTrigger)            *)
(***************************************************************************)
\* The poll fetched its data: the API (or RPC) call answered with data.
Fetched(p) == p.response.kind = "data"

\* The APY, in percent, a highYieldAlert poll observed.
ObservedApy(p) == JsMul(p.response.currentApy, Num(100))

Alerted(p) ==
    /\ Len(p.returnData) = 1
    /\ p.returnData[1].event = "high_yield_alert"

\* C28: in highYieldAlert mode, over any sequence of polls with a fixed
\* threshold, a high_yield_alert is emitted exactly on the polls where the
\* fetched APY is >= threshold and the stored wasAboveThreshold flag is not
\* true; so between any two alerts there is a poll that observed APY <
\* threshold, and a poll whose API call fails emits nothing and leaves the
\* flag unchanged.
C28_AlertOncePerCrossing ==
    params.event = "highYieldAlert" =>
        /\ \A i \in 1..Len(polls) :
              LET p == polls[i]
              IN  /\ p.before = (IF i = 1 THEN [lastBlock |-> Omitted,
                                                wasAboveThreshold |-> Omitted,
                                                lastSats |-> Omitted]
                                 ELSE polls[i - 1].after)
                  /\ Alerted(p) <=>
                        /\ Fetched(p)
                        /\ JsLeq(params.apyThreshold, ObservedApy(p))
                        /\ p.before.wasAboveThreshold # <<TRUE>>
                  /\ ~Alerted(p) => p.returnData = <<>>
                  /\ ~Fetched(p) =>
                        /\ p.returnData = <<>>
                        /\ p.after.wasAboveThreshold = p.before.wasAboveThreshold
        /\ \A i, j \in 1..Len(polls) :
              (i < j /\ Alerted(polls[i]) /\ Alerted(polls[j]))
                  => \E k \in (i + 1)..(j - 1) :
                        /\ Fetched(polls[k])
                        /\ JsLess(ObservedApy(polls[k]), params.apyThreshold)
        /\ webhookData = (IF polls = <<>> THEN webhookData
                          ELSE polls[Len(polls)].after)

\* Four polls observed 25%, 20%, 15% and 25% against a threshold of 20%: the
\* first and the last alerted, the second did not repeat the alert.
C28_Witness ==
    /\ params.event = "highYieldAlert"
    /\ Len(polls) = 4
    /\ Alerted(polls[1])
    /\ Fetched(polls[2]) /\ ObservedApy(polls[2]) = Num(20)
    /\ ~Alerted(polls[2])
    /\ Fetched(polls[3]) /\ ObservedApy(polls[3]) = Num(15)
    /\ Alerted(polls[4])

\* The polls before poll i that fetched their data.
FetchedBefore(i) == {j \in 1..(i - 1) : Fetched(polls[j])}

\* The latest poll before poll i that fetched its data (FetchedBefore(i) is
\* not empty).
PreviousFetched(i) == CHOOSE j \in FetchedBefore(i) : \A k \in FetchedBefore(i) : k <= j

EarnedSats(p) ==
    /\ Len(p.returnData) = 1
    /\ p.returnData[1].event = "sats_earned"

\* C29: in satsEarned mode, on every poll after the first successful one, a
\* sats_earned event with satsEarned = current - previous is emitted exactly
\* when the fetched totalSats is greater than the totalSats the previous
\* successful poll fetched, for every previous value including 0; after every
\* successful poll the stored lastSats equals the fetched totalSats.
C29_SatsEarnedOnIncrease ==
    params.event = "satsEarned" =>
        \A i \in 1..Len(polls) :
            LET p == polls[i]
            IN  Fetched(p) =>
                  /\ p.after.lastSats = <<p.response.totalSats>>
                  /\ FetchedBefore(i) # {} =>
                        LET previous == polls[PreviousFetched(i)].response.totalSats
                            current == p.response.totalSats
                        IN  /\ EarnedSats(p) <=> JsLess(previous, current)
                            /\ EarnedSats(p) =>
                                  /\ p.returnData[1].previousSats = previous
                                  /\ p.returnData[1].currentSats = current
                                  /\ p.returnData[1].satsEarned = JsSub(current, previous)
                            /\ ~EarnedSats(p) => p.returnData = <<>>

\* C30: in usdeTransfer and largeUsdeTransfer mode, each successful poll after
\* the first successful one scans exactly the blocks lastBlock+1..currentBlock
\* and stores lastBlock = currentBlock, so no block is scanned by two
\* successful polls and no block after the first poll's starting point is
\* skipped; a poll that throws leaves lastBlock unchanged, so the next
\* successful poll scans its blocks.
C30_BlocksScannedOnce ==
    params.event \in {"usdeTransfer", "largeUsdeTransfer"} =>
        /\ \A i \in 1..Len(polls) :
              LET p == polls[i]
              IN  /\ Fetched(p) =>
                        /\ p.after.lastBlock = <<p.response.currentBlock>>
                        /\ p.scan[2] = p.response.currentBlock
                        /\ FetchedBefore(i) # {} =>
                              p.scan[1] = polls[PreviousFetched(i)].response.currentBlock + 1
                        /\ p.before.lastBlock # <<>> =>
                              p.scan[1] = p.before.lastBlock[1] + 1
                  /\ ~Fetched(p) =>
                        /\ p.after.lastBlock = p.before.lastBlock
                        /\ p.returnData = <<>>
        /\ \A i, j \in 1..Len(polls) :
              (i < j /\ Fetched(polls[i]) /\ Fetched(polls[j]))
                  => (polls[i].scan[1]..polls[i].scan[2])
                        \cap (polls[j].scan[1]..polls[j].scan[2]) = {}
        /\ \A i \in 1..Len(polls) :
              (Fetched(polls[i]) /\ FetchedBefore(i) # {}) =>
                  LET first == CHOOSE j \in FetchedBefore(i) : \A k \in FetchedBefore(i) : j <= k
                  IN  \A b \in polls[first].scan[1]..polls[i].scan[2] :
                         \E k \in 1..i :
                            /\ Fetched(polls[k])
                            /\ b \in polls[k].scan[1]..polls[k].scan[2]

\* A poll scanned up to block 1000, a block was mined, the next poll threw,
\* another block was mined, and the poll after it scanned blocks 1001..1002.
C30_Witness ==
    /\ params.event = "usdeTransfer"
    /\ Len(polls) = 3
    /\ Fetched(polls[1]) /\ polls[1].scan[2] = StartBlock
    /\ ~Fetched(polls[2])
    /\ Fetched(polls[3])
    /\ polls[3].scan = <<StartBlock + 1, StartBlock + 2>>
    /\ Len(polls[3].returnData) > 0

====
